---- MODULE Spec2Model ----
(***************************************************************************)
(* Model of the iFlow session pool (IFlowSessionManager) and of the SSE    *)
(* stream coordinator of the chat route.                                   *)
(*                                                                         *)
(* The server is one single-threaded event loop: a handler runs without    *)
(* interruption up to its next `await` on real I/O (disconnect, workspace  *)
(* and history I/O, connect, the next upstream event), and other handlers  *)
(* run while it is suspended.  Every action below is one such run.         *)
(***************************************************************************)
EXTENDS Integers, Sequences, FiniteSets, TLC

(***************************************************************************)
(* Bounds of the model and scaled program constants.                       *)
(***************************************************************************)
\* Clock values are 0..MaxTime (Date.now(), in units of one tick).
MaxTime == 2
\* Number of getOrCreateSession calls made in one behaviour.
MaxCalls == 3
\* MAX_SESSIONS is 1000 in the source; scaled down so that the capacity
\* path is reached.
MAX_SESSIONS == 2
\* SESSION_TIMEOUT is 30 min in the source; scaled to clock ticks.
SESSION_TIMEOUT == 1

\* The (userId, workspaceId) pairs of the requests; each workspace belongs
\* to one user (the route rejects a request for a foreign workspace).
Requests == {<<"u1", "w1">>, <<"u1", "w2">>, <<"u2", "w3">>}
\* The configurations requests ask for: a base one, one that differs from it
\* in modelName only, and one that differs in permissionMode only.
Configs == {[modelName |-> "MiniMax-M2", permissionMode |-> "default"],
            [modelName |-> "GLM-4.6", permissionMode |-> "default"],
            [modelName |-> "MiniMax-M2", permissionMode |-> "yolo"]}

\* Concurrent chat requests (each one call of getOrCreateSession).
Procs == {"r1", "r2"}

NoKey == <<"", "">>
NoConfig == [modelName |-> "", permissionMode |-> ""]
\* session.historyContext: undefined, or the replayed conversation.  The
\* first workspace has stored messages, the other workspaces have none.
NoHistory == "undefined"
HistoryOf(key) == IF key = <<"u1", "w1">> THEN "history" ELSE NoHistory

VARIABLES
  now,        \* Date.now()
  calls,      \* number of getOrCreateSession calls made so far
  sessions,   \* this.sessions: the Map, as its entries in insertion order
  clients,    \* every IFlowClient ever connected, indexed by session id
  stats,      \* this.stats
  pc,         \* per request: where its getOrCreateSession call is suspended
  req,        \* per request: the arguments of the call
  tgt,        \* per request: the sessionKey of the destroySession it awaits
  ret,        \* per request: id of the session returned (0: the call threw)
  swpc,       \* cleanupExpiredSessions: "idle" or "destroying"
  expired,    \* cleanupExpiredSessions: expiredSessions not yet destroyed
  lastRet,    \* history: per key, id of the session last returned to a caller
  undisturbed, \* history: per key, no destroy of it since the last return
  expect      \* history: per request, the id reuse owes the call (0: none)

poolVars == <<now, calls, sessions, clients, stats, pc, req, tgt, ret, swpc,
              expired, lastRet, undisturbed, expect>>

VARIABLES
  upstream,   \* the raw events receiveMessages() has yet to yield
  ending,     \* what the iterator does after them: "end" or "throw"
  co,         \* the coordinator of one response: collectingStream.start
  pulled,     \* history: the raw events the loop has taken from the iterator
  pulledAtCancel \* history: how many it had taken when the client cancelled
                 \* (-1: the client has not cancelled)

streamVars == <<upstream, ending, co, pulled, pulledAtCancel>>

VARIABLES
  isFirstMessage, \* per session id: session.isFirstMessage
  historyContext, \* per session id: session.historyContext
  outbound        \* history: per session id, the messages sent through it

sendVars == <<isFirstMessage, historyContext, outbound>>

VARIABLES
  cleanupTimer, \* this.cleanupTimer is set: the sweep interval is running
  apc,          \* the caller of destroySession and destroyAllSessions:
                \* "idle", "destroying" or "shutting"
  akey,         \* the key of its destroySession call
  aqueue,       \* destroyAllSessions: sessionKeys not yet destroyed
  aprev,        \* history: the key of its last completed destroySession
                \* and stats.totalCreated as that call left it
  alast         \* history: its last destroySession call, and how many
                \* it has made

adminVars == <<cleanupTimer, apc, akey, aqueue, aprev, alast>>

VARIABLES
  frameCodes, \* history: the events the response body was encoded from
  feed,       \* the bytes of the response body
  reader,     \* the reader loop of sendMessage
  heap,       \* the message objects and transcript arrays allocated so far
  messages,   \* the reducer's state: the current transcript array
  dispatched  \* history: the actions dispatched to the reducer so far

clientVars == <<frameCodes, feed, reader, heap, messages, dispatched>>

VARIABLES
  records,    \* RateLimiter.records: identifier -> {count, resetTime}
  checks      \* history: the check() calls made, each with its time and result

rateVars == <<records, checks>>

VARIABLES
  started,    \* per session id: the sendMessage calls that have settled
  active,     \* per session id: the response streams being coordinated
  cancelled,  \* history: per session id, how many getOrCreateSession calls
              \* had been made when a client cancelled a stream of it (0: none)
  firstDelivered \* history: per session id, the first message whose
                 \* sendMessage resolved, if there is one

activeVars == <<started, active, cancelled, firstDelivered>>

VARIABLES
  channel,    \* the connection of one session: the events upstream has
              \* produced and no receiveMessages() iterator has taken yet,
              \* each with the request whose message it answers
  turn        \* per request on that session: where its handler is, its
              \* coordinator, and for each frame written the request whose
              \* message the frame answers

turnVars == <<channel, turn>>

VARIABLES
  sender      \* the hook across renders: the isStreaming state, the value of
              \* it that the current sendMessage callback closed over, the
              \* sendMessage calls made, those that are past the guard and
              \* have not finished, and the requests issued

senderVars == <<sender>>

\* What the steps of the pool, of the response stream, of the callers of
\* destroy, of the browser side, of the rate limiter, of the streams on
\* pooled sessions and of the requests on one session leave alone.
offPool == <<streamVars, adminVars, clientVars, rateVars, activeVars, turnVars, senderVars>>
offStream == <<poolVars, sendVars, adminVars, clientVars, rateVars, activeVars,
               turnVars, senderVars>>
offAdmin == <<streamVars, sendVars, clientVars, rateVars, activeVars, turnVars, senderVars>>
offClient == <<poolVars, streamVars, sendVars, adminVars, rateVars, activeVars,
               turnVars, senderVars>>
offRate == <<streamVars, sendVars, adminVars, clientVars, activeVars, turnVars, senderVars>>
offActive == <<streamVars, sendVars, adminVars, clientVars, rateVars, turnVars, senderVars>>
offTurn == <<poolVars, streamVars, sendVars, adminVars, clientVars, rateVars,
             activeVars, senderVars>>

offSender == <<poolVars, streamVars, sendVars, adminVars, rateVars, activeVars, turnVars>>
vars == <<poolVars, streamVars, sendVars, adminVars, clientVars, rateVars,
          activeVars, turnVars, senderVars>>

(***************************************************************************)
(* The session Map.                                                        *)
(***************************************************************************)
getSessionKey(userId, workspaceId) == <<userId, workspaceId>>

Keys == {getSessionKey(r[1], r[2]) : r \in Requests}

Has(s, key) == \E i \in 1..Len(s) : s[i].key = key

Idx(s, key) == CHOOSE i \in 1..Len(s) : s[i].key = key

\* Map.delete
MapDelete(s, key) == SelectSeq(s, LAMBDA e : e.key # key)

\* Map.set: an existing key keeps its position, a new key goes last.
MapSet(s, key, entry) ==
  IF Has(s, key) THEN [s EXCEPT ![Idx(s, key)] = entry] ELSE Append(s, entry)

(***************************************************************************)
(* destroySession(sessionKey), up to its `await session.client.disconnect()`*)
(* : the entry is looked up and disconnect() is invoked on its client.     *)
(* Whether disconnect() resolves or rejects makes no difference: the       *)
(* rejection is caught and logged, and the code after it is the same.      *)
(***************************************************************************)
DisconnectCalled(c, id) == [c EXCEPT ![id].disconnectCalls = @ + 1]

\* Variant of DestroyFinish that leaves the entry in the Map.
DestroyFinishKeeps(s, key) == s

\* destroySession after the await: this.sessions.delete(sessionKey) removes
\* whatever entry the key holds by then; stats.totalDestroyed++.
DestroyFinish(s, key) == MapDelete(s, key)

(***************************************************************************)
(* evictOldestSession: the scan for the least recently active entry.       *)
(* oldestTime starts at Date.now() and an entry replaces the candidate     *)
(* only when its lastActivity is strictly smaller.  The result is the      *)
(* index of the entry chosen, 0 for oldestKey = null.                      *)
(***************************************************************************)
RECURSIVE EvictScan(_, _, _, _)
EvictScan(s, i, oldestIdx, oldestTime) ==
  IF i > Len(s) THEN oldestIdx
  ELSE IF s[i].lastActivity < oldestTime
       THEN EvictScan(s, i + 1, i, s[i].lastActivity)
       ELSE EvictScan(s, i + 1, oldestIdx, oldestTime)

evictOldestSession(s, t) == IF Len(s) = 0 THEN 0 ELSE EvictScan(s, 1, 0, t)

(***************************************************************************)
(* cleanupExpiredSessions: the keys collected by the scan, in Map order.   *)
(***************************************************************************)
RECURSIVE ExpiredKeys(_, _, _)
ExpiredKeys(s, i, t) ==
  IF i > Len(s) THEN <<>>
  ELSE IF t - s[i].lastActivity > SESSION_TIMEOUT
       THEN <<s[i].key>> \o ExpiredKeys(s, i + 1, t)
       ELSE ExpiredKeys(s, i + 1, t)

\* The destroy loop skips a key that is no longer in the Map: destroySession
\* returns at once for it.
RECURSIVE SkipAbsent(_, _)
SkipAbsent(s, ks) ==
  IF ks = <<>> THEN <<>>
  ELSE IF Has(s, Head(ks)) THEN ks ELSE SkipAbsent(s, Tail(ks))

Disturb(u, key) == [u EXCEPT ![key] = FALSE]

(***************************************************************************)
(* getOrCreateSession from the capacity check on (lines 117-126), run on   *)
(* the Map value s: either evictOldestSession finds a victim and the call  *)
(* suspends on its disconnect(), or the call goes on to createSession and  *)
(* suspends on ensureWorkspace / history / connect.                        *)
(***************************************************************************)
CapacityCheck(p, s, u) ==
  LET victim == IF Len(s) >= MAX_SESSIONS THEN evictOldestSession(s, now) ELSE 0
  IN IF victim # 0
     THEN /\ clients' = DisconnectCalled(clients, s[victim].id)
          /\ tgt' = [tgt EXCEPT ![p] = s[victim].key]
          /\ pc' = [pc EXCEPT ![p] = "evicting"]
          /\ undisturbed' = Disturb(u, s[victim].key)
     ELSE /\ pc' = [pc EXCEPT ![p] = "creating"]
          /\ tgt' = [tgt EXCEPT ![p] = NoKey]
          /\ undisturbed' = u
          /\ UNCHANGED clients

\* Variant of ConfigChanged with a slip in the second comparison: the
\* permissionMode of the session is compared with the modelName asked for.
ConfigChangedSlip(existingSession, config) ==
  \/ existingSession.modelName # config.modelName
  \/ existingSession.permissionMode # config.modelName

\* getOrCreateSession, lines 99-101.
ConfigChanged(existingSession, config) ==
  \/ existingSession.modelName # config.modelName
  \/ existingSession.permissionMode # config.permissionMode

(***************************************************************************)
(* getOrCreateSession(userId, workspaceId, config), up to its first await. *)
(***************************************************************************)
GetOrCreateSession(p) ==
  /\ pc[p] = "idle"
  /\ calls < MaxCalls
  /\ calls' = calls + 1
  /\ \E r \in Requests, config \in Configs :
       LET sessionKey == getSessionKey(r[1], r[2])
       IN /\ req' = [req EXCEPT ![p] = [key |-> sessionKey, config |-> config]]
          /\ expect' = [expect EXCEPT ![p] =
               IF /\ lastRet[sessionKey] # 0
                  /\ undisturbed[sessionKey]
                  /\ clients[lastRet[sessionKey]].config = config
               THEN lastRet[sessionKey] ELSE 0]
          /\ IF Has(sessions, sessionKey)
             THEN LET existingSession == sessions[Idx(sessions, sessionKey)]
                      configChanged == ConfigChanged(existingSession, config)
                  IN IF ~configChanged
                     THEN \* reuse: refresh lastActivity and return
                          /\ sessions' = [sessions EXCEPT
                               ![Idx(sessions, sessionKey)].lastActivity = now]
                          /\ pc' = [pc EXCEPT ![p] = "done"]
                          /\ ret' = [ret EXCEPT ![p] = existingSession.id]
                          /\ lastRet' = [lastRet EXCEPT ![sessionKey] = existingSession.id]
                          /\ undisturbed' = [undisturbed EXCEPT ![sessionKey] = TRUE]
                          /\ UNCHANGED <<clients, tgt>>
                     ELSE \* config changed: destroySession(sessionKey)
                          /\ clients' = DisconnectCalled(clients, existingSession.id)
                          /\ tgt' = [tgt EXCEPT ![p] = sessionKey]
                          /\ pc' = [pc EXCEPT ![p] = "destroying"]
                          /\ undisturbed' = Disturb(undisturbed, sessionKey)
                          /\ UNCHANGED <<sessions, ret, lastRet>>
             ELSE /\ CapacityCheck(p, sessions, undisturbed)
                  /\ UNCHANGED <<sessions, ret, lastRet>>
  /\ UNCHANGED <<now, stats, swpc, expired>>
  /\ UNCHANGED <<offPool, sendVars>>

\* The disconnect() of the config-change destroy has settled: the entry is
\* deleted and the call goes on with the capacity check.
DestroyOldDone(p) ==
  /\ pc[p] = "destroying"
  /\ LET s == DestroyFinish(sessions, tgt[p])
     IN /\ sessions' = s
        /\ stats' = [stats EXCEPT !.totalDestroyed = @ + 1]
        /\ CapacityCheck(p, s, Disturb(undisturbed, tgt[p]))
  /\ UNCHANGED <<now, calls, req, ret, swpc, expired, lastRet>>
  /\ UNCHANGED <<offPool, sendVars, expect>>

\* The disconnect() of the eviction has settled (evictOldestSession, lines
\* 374-375): the entry is deleted and the call goes on to createSession.
EvictDone(p) ==
  /\ pc[p] = "evicting"
  /\ sessions' = DestroyFinish(sessions, tgt[p])
  /\ stats' = [stats EXCEPT !.totalDestroyed = @ + 1, !.evictionCount = @ + 1]
  /\ undisturbed' = Disturb(undisturbed, tgt[p])
  /\ pc' = [pc EXCEPT ![p] = "creating"]
  /\ tgt' = [tgt EXCEPT ![p] = NoKey]
  /\ UNCHANGED <<now, calls, clients, req, ret, swpc, expired, lastRet>>
  /\ UNCHANGED <<offPool, sendVars, expect>>

(***************************************************************************)
(* createSession after its awaits: the client is connected, the session    *)
(* object is built and stored, and it is returned to the caller.           *)
(***************************************************************************)
NewSession(key, id, config, t) ==
  [key |-> key, id |-> id, modelName |-> config.modelName,
   permissionMode |-> config.permissionMode, createdAt |-> t,
   lastActivity |-> t]

CreateSessionDone(p) ==
  /\ pc[p] = "creating"
  /\ LET id == Len(clients) + 1
         key == req[p].key
     IN /\ clients' = Append(clients, [key |-> key, config |-> req[p].config,
                                      disconnectCalls |-> 0])
        /\ sessions' = MapSet(sessions, key, NewSession(key, id, req[p].config, now))
        /\ stats' = [stats EXCEPT !.totalCreated = @ + 1]
        /\ ret' = [ret EXCEPT ![p] = id]
        /\ lastRet' = [lastRet EXCEPT ![key] = id]
        /\ undisturbed' = [undisturbed EXCEPT ![key] = TRUE]
        \* historyContext is what the workspace's stored messages give,
        \* undefined when there are none.
        /\ historyContext' = Append(historyContext, HistoryOf(key))
        /\ isFirstMessage' = Append(isFirstMessage, TRUE)
        /\ outbound' = Append(outbound, <<>>)
  /\ pc' = [pc EXCEPT ![p] = "done"]
  /\ UNCHANGED <<now, calls, req, tgt, swpc, expired>>
  /\ UNCHANGED <<offPool, expect>>

\* Variant of CreateSessionFailed that stores the session before the
\* connection is made, and leaves it there when connecting fails.
CreateSessionFailedHalfway(p) ==
  /\ pc[p] = "creating"
  /\ pc' = [pc EXCEPT ![p] = "done"]
  /\ ret' = [ret EXCEPT ![p] = 0]
  /\ sessions' = MapSet(sessions, req[p].key,
                   NewSession(req[p].key, Len(clients) + 1, req[p].config, now))
  /\ UNCHANGED <<now, calls, clients, stats, req, tgt, swpc, expired,
                 lastRet, undisturbed>>
  /\ UNCHANGED <<offPool, sendVars, expect>>

\* ensureWorkspace or createIFlowClient throws: the call throws, nothing is
\* stored.
CreateSessionFailed(p) ==
  /\ pc[p] = "creating"
  /\ pc' = [pc EXCEPT ![p] = "done"]
  /\ ret' = [ret EXCEPT ![p] = 0]
  /\ UNCHANGED <<now, calls, sessions, clients, stats, req, tgt, swpc, expired,
                 lastRet, undisturbed>>
  /\ UNCHANGED <<offPool, sendVars, expect>>

\* Variant of MessageToSend that does not look at isFirstMessage.
MessageToSendWithHistory(id) == [prefix |-> historyContext[id]]

(***************************************************************************)
(* The route handler resumes with the session (or with the error, which it *)
(* answers with status 500).  With a session it builds messageToSend: the  *)
(* history context is prepended when isFirstMessage is set and there is a  *)
(* history context, and isFirstMessage is cleared in the same step, before *)
(* the awaited client.sendMessage.                                         *)
(***************************************************************************)
MessageToSend(id) ==
  IF isFirstMessage[id] /\ historyContext[id] # NoHistory
  THEN [prefix |-> historyContext[id]]
  ELSE [prefix |-> NoHistory]

Return(p) ==
  /\ pc[p] = "done"
  /\ IF ret[p] = 0
     THEN UNCHANGED sendVars
     ELSE /\ outbound' = [outbound EXCEPT ![ret[p]] = Append(@, MessageToSend(ret[p]))]
          /\ isFirstMessage' =
               IF MessageToSend(ret[p]).prefix # NoHistory
               THEN [isFirstMessage EXCEPT ![ret[p]] = FALSE]
               ELSE isFirstMessage
          /\ UNCHANGED historyContext
  /\ pc' = [pc EXCEPT ![p] = "idle"]
  /\ req' = [req EXCEPT ![p] = [key |-> NoKey, config |-> NoConfig]]
  /\ ret' = [ret EXCEPT ![p] = 0]
  /\ expect' = [expect EXCEPT ![p] = 0]
  /\ UNCHANGED <<now, calls, sessions, clients, stats, tgt, swpc, expired,
                 lastRet, undisturbed>>
  /\ UNCHANGED offPool

(***************************************************************************)
(* cleanupExpiredSessions, started by the interval timer of startCleanup.  *)
(* The timer may fire at any time; one sweep runs at a time.               *)
(***************************************************************************)
CleanupExpiredSessions ==
  /\ cleanupTimer
  /\ swpc = "idle"
  /\ LET expiredSessions == ExpiredKeys(sessions, 1, now)
     IN /\ expiredSessions # <<>>
        /\ expired' = expiredSessions
        /\ clients' = DisconnectCalled(clients,
             sessions[Idx(sessions, Head(expiredSessions))].id)
        /\ undisturbed' = Disturb(undisturbed, Head(expiredSessions))
        /\ swpc' = "destroying"
  /\ UNCHANGED <<now, calls, sessions, stats, pc, req, tgt, ret, lastRet>>
  /\ UNCHANGED <<offPool, sendVars, expect>>

\* One disconnect() of the sweep has settled: delete that key, then go on
\* with the next key of the list that is still in the Map.
CleanupDestroyDone ==
  /\ swpc = "destroying"
  /\ LET s == DestroyFinish(sessions, Head(expired))
         rest == SkipAbsent(s, Tail(expired))
     IN /\ sessions' = s
        /\ stats' = [stats EXCEPT !.totalDestroyed = @ + 1]
        /\ expired' = rest
        /\ IF rest = <<>>
           THEN /\ swpc' = "idle"
                /\ undisturbed' = Disturb(undisturbed, Head(expired))
                /\ UNCHANGED clients
           ELSE /\ swpc' = "destroying"
                /\ clients' = DisconnectCalled(clients, s[Idx(s, Head(rest))].id)
                /\ undisturbed' =
                     Disturb(Disturb(undisturbed, Head(expired)), Head(rest))
  /\ UNCHANGED <<now, calls, pc, req, tgt, ret, lastRet>>
  /\ UNCHANGED <<offPool, sendVars, expect>>

\* Time passes.
Tick ==
  /\ now < MaxTime
  /\ now' = now + 1
  /\ UNCHANGED <<calls, sessions, clients, stats, pc, req, tgt, ret, swpc,
                 expired, lastRet, undisturbed, expect>>
  /\ UNCHANGED <<offPool, sendVars>>

(***************************************************************************)
(* destroySession(sessionKey) called from outside the pool.  For a key     *)
(* that has no entry the call returns at once; otherwise disconnect() is   *)
(* invoked on the entry's client and the call awaits it.                   *)
(***************************************************************************)
\* No session has been created since the last completed destroySession of
\* the key.
InRow(key) == aprev.key = key /\ aprev.totalCreated = stats.totalCreated

MaxDestroys == 2

DestroySession(key) ==
  /\ apc = "idle"
  /\ alast.n < MaxDestroys
  /\ akey' = key
  /\ IF Has(sessions, key)
     THEN /\ clients' = DisconnectCalled(clients, sessions[Idx(sessions, key)].id)
          /\ undisturbed' = Disturb(undisturbed, key)
          /\ apc' = "destroying"
          /\ alast' = [n |-> alast.n + 1, key |-> key, noop |-> FALSE,
                       inRow |-> InRow(key)]
     ELSE /\ alast' = [n |-> alast.n + 1, key |-> key, noop |-> TRUE,
                       inRow |-> InRow(key)]
          /\ UNCHANGED <<clients, undisturbed, apc>>
  /\ UNCHANGED <<now, calls, sessions, stats, pc, req, tgt, ret, swpc, expired,
                 lastRet, expect>>
  /\ UNCHANGED <<cleanupTimer, aqueue, aprev>>
  /\ UNCHANGED offAdmin

\* Its disconnect() has settled: the key is deleted and the call returns.
DestroySessionDone ==
  /\ apc = "destroying"
  /\ sessions' = DestroyFinish(sessions, akey)
  /\ stats' = [stats EXCEPT !.totalDestroyed = @ + 1]
  /\ undisturbed' = Disturb(undisturbed, akey)
  /\ apc' = "idle"
  /\ aprev' = [key |-> akey, totalCreated |-> stats.totalCreated]
  /\ UNCHANGED <<now, calls, clients, pc, req, tgt, ret, swpc, expired,
                 lastRet, expect>>
  /\ UNCHANGED <<cleanupTimer, akey, aqueue, alast>>
  /\ UNCHANGED offAdmin

(***************************************************************************)
(* destroyAllSessions: the keys of the Map are listed once, each is        *)
(* destroyed in turn with an awaited destroySession, and stopCleanup       *)
(* clears the sweep timer.  Nothing else is set: the manager keeps no      *)
(* closed or shutting-down mark.                                           *)
(***************************************************************************)
SessionKeys(s) == [i \in 1..Len(s) |-> s[i].key]

DestroyAllSessions ==
  /\ apc = "idle"
  /\ cleanupTimer
  /\ IF sessions = <<>>
     THEN /\ cleanupTimer' = FALSE
          /\ UNCHANGED <<clients, undisturbed, apc, aqueue>>
     ELSE /\ aqueue' = SessionKeys(sessions)
          /\ clients' = DisconnectCalled(clients, sessions[1].id)
          /\ undisturbed' = Disturb(undisturbed, sessions[1].key)
          /\ apc' = "shutting"
          /\ UNCHANGED cleanupTimer
  /\ UNCHANGED <<now, calls, sessions, stats, pc, req, tgt, ret, swpc, expired,
                 lastRet, expect>>
  /\ UNCHANGED <<akey, aprev, alast>>
  /\ UNCHANGED offAdmin

DestroyAllDone ==
  /\ apc = "shutting"
  /\ LET s == DestroyFinish(sessions, Head(aqueue))
         rest == SkipAbsent(s, Tail(aqueue))
     IN /\ sessions' = s
        /\ stats' = [stats EXCEPT !.totalDestroyed = @ + 1]
        /\ aqueue' = rest
        /\ IF rest = <<>>
           THEN /\ apc' = "idle"
                /\ cleanupTimer' = FALSE
                /\ undisturbed' = Disturb(undisturbed, Head(aqueue))
                /\ UNCHANGED clients
           ELSE /\ apc' = "shutting"
                /\ clients' = DisconnectCalled(clients, s[Idx(s, Head(rest))].id)
                /\ undisturbed' =
                     Disturb(Disturb(undisturbed, Head(aqueue)), Head(rest))
                /\ UNCHANGED cleanupTimer
  /\ UNCHANGED <<now, calls, pc, req, tgt, ret, swpc, expired, lastRet, expect>>
  /\ UNCHANGED <<akey, aprev, alast>>
  /\ UNCHANGED offAdmin

(***************************************************************************)
(* Raw upstream events.  A JavaScript value is a record: js is what the    *)
(* value is ("object", "null", "undefined" or "string" for a primitive),   *)
(* and for an object the fields the adapter reads.  A text is a sequence   *)
(* of tokens, so that `+=` is concatenation; Undef stands for a field that *)
(* is not there.  Fields the adapter only passes through (label, args,     *)
(* code, priority) are left out.                                           *)
(***************************************************************************)
Undef == <<"undefined">>
NoText == <<>>
\* A field value that is an object, not a string.
ObjVal == <<"[object Object]">>

\* JavaScript truthiness of a text field and of a string field.
Truthy(v) == v # Undef /\ v # NoText
TruthyS(v) == v # "undefined" /\ v # ""

\* a || b
Or(a, b) == IF Truthy(a) THEN a ELSE b
OrS(a, b) == IF TruthyS(a) THEN a ELSE b

RawObject(type) ==
  [js |-> "object", type |-> type, chunkText |-> Undef, content |-> Undef,
   text |-> Undef, agentInfo |-> "undefined", toolName |-> "undefined",
   tool_name |-> "undefined", status |-> "undefined", result |-> Undef,
   entries |-> <<>>, stopReason |-> "undefined", reason |-> "undefined",
   error |-> Undef, message |-> Undef, description |-> Undef,
   details |-> Undef, data |-> Undef]

RawValue(js) == [RawObject("undefined") EXCEPT !.js = js]

\* The events the upstream iterator may yield, one or two of each kind.
RawEvents ==
  { [RawObject("assistant") EXCEPT !.chunkText = <<"a">>, !.agentInfo = "agent"],
    [RawObject("text-delta") EXCEPT !.text = <<"b">>],
    [RawObject("tool_call") EXCEPT !.toolName = "read", !.status = "executing"],
    [RawObject("tool_call") EXCEPT !.tool_name = "read", !.status = "completed",
                                   !.content = <<"x">>],
    [RawObject("plan") EXCEPT !.entries = <<"step">>],
    RawObject("task_finish"),
    [RawObject("finish") EXCEPT !.stopReason = "max_tokens"],
    [RawObject("error") EXCEPT !.message = <<"boom">>],
    RawObject("unknown-future-type"),
    RawValue("string"),
    RawValue("null") }

\* What a candidate field of an error event may hold: nothing, the empty
\* string, an object, or one of two texts.
FieldValues == {Undef, NoText, ObjVal, <<"boom">>, <<"bang">>}

\* The error events upstream may yield: every choice of the five fields.
ErrorEvents ==
  {[RawObject("error") EXCEPT !.error = v[1], !.message = v[2],
                              !.description = v[3], !.details = v[4],
                              !.data = v[5]] : v \in [1..5 -> FieldValues]}

(***************************************************************************)
(* adaptIFlowMessage and its helpers: the SSE data of a raw event, NullSSE *)
(* for null.                                                               *)
(***************************************************************************)
NullSSE == [type |-> "null"]

adaptAgentInfo(message) ==
  IF TruthyS(message.agentInfo) THEN message.agentInfo ELSE "undefined"

adaptAssistant(message) ==
  [type |-> "text-delta",
   text |-> Or(message.chunkText, Or(message.content, Or(message.text, NoText))),
   agentInfo |-> adaptAgentInfo(message)]

adaptTextDelta(message) ==
  [type |-> "text-delta", text |-> Or(message.text, NoText),
   agentInfo |-> adaptAgentInfo(message)]

adaptToolCall(message) ==
  [type |-> "tool-call",
   toolName |-> OrS(message.toolName, OrS(message.tool_name, "unknown")),
   status |-> OrS(message.status, "pending"),
   result |-> Or(message.result, message.content)]

adaptPlan(message) == [type |-> "plan", entries |-> message.entries]

adaptTaskFinish(message) ==
  [type |-> "finish",
   stopReason |-> OrS(message.stopReason, OrS(message.reason, "end_turn"))]

adaptFinish(message) ==
  [type |-> "finish", stopReason |-> OrS(message.stopReason, "end_turn")]

\* typeof v === 'string'
IsString(v) == v # Undef /\ v # ObjVal

adaptError(message) ==
  [type |-> "error",
   error |-> Or(message.error,
             Or(message.message,
             Or(message.description,
             Or(message.details,
             Or(IF Truthy(message.data) /\ IsString(message.data)
                THEN message.data ELSE Undef,
                <<"Unknown error">>)))))]

adaptIFlowMessage(message) ==
  IF message.js # "object" THEN NullSSE
  ELSE CASE message.type = "assistant" -> adaptAssistant(message)
         [] message.type = "text-delta" -> adaptTextDelta(message)
         [] message.type = "tool_call" -> adaptToolCall(message)
         [] message.type = "plan" -> adaptPlan(message)
         [] message.type = "task_finish" -> adaptTaskFinish(message)
         [] message.type = "finish" -> adaptFinish(message)
         [] message.type = "error" -> adaptError(message)
         [] OTHER -> NullSSE

(***************************************************************************)
(* The coordinator: collectingStream.start of the chat route.  co holds    *)
(* the locals of the request (assistantContent, agentInfo, toolCalls,      *)
(* planEntries, stopReason), the response stream (sink, frames written,    *)
(* successful close() calls), what was handed to saveIFlowMessage, the     *)
(* number of exceptions caught and logged, and whether an exception left   *)
(* start().                                                                *)
(***************************************************************************)
CoIdle ==
  [spc |-> "idle", sink |-> "open", frames |-> <<>>, closes |-> 0,
   swallowed |-> 0, escaped |-> FALSE, assistantContent |-> NoText,
   agentInfo |-> "undefined", toolCalls |-> <<>>, planEntries |-> <<>>,
   stopReason |-> "undefined", saved |-> <<>>]

\* Lines 278-298: collect the data of the assistant message.
Accumulate(c, adapted) ==
  CASE adapted.type = "text-delta" ->
         [c EXCEPT !.assistantContent = @ \o adapted.text,
                   !.agentInfo = IF TruthyS(adapted.agentInfo) /\ ~TruthyS(@)
                                 THEN adapted.agentInfo ELSE @]
    [] adapted.type = "tool-call" ->
         [c EXCEPT !.toolCalls = Append(@, [toolName |-> adapted.toolName,
                                            status |-> adapted.status,
                                            result |-> adapted.result])]
    [] adapted.type = "plan" ->
         [c EXCEPT !.planEntries = @ \o adapted.entries]
    [] adapted.type = "finish" ->
         [c EXCEPT !.stopReason = adapted.stopReason]
    [] OTHER -> c

\* Variant of IsTerminal that ends the stream on finish only.
IsTerminalFinishOnly(adapted) == adapted.type = "finish"

\* Line 311.
IsTerminal(adapted) == adapted.type = "finish" \/ adapted.type = "error"

\* Lines 313-325: saveIFlowMessage, only when there is text.
SaveAssistant(c) ==
  IF c.assistantContent # NoText
  THEN [c EXCEPT !.saved = Append(@,
         [content |-> c.assistantContent, agentInfo |-> c.agentInfo,
          toolCalls |-> c.toolCalls, plan |-> c.planEntries,
          stopReason |-> c.stopReason])]
  ELSE c

\* controller.enqueue and controller.close throw a TypeError unless the
\* stream is still readable.
\* Variant of SafeClose without the try/catch: the TypeError leaves start().
UnguardedClose(c) ==
  IF c.sink = "open"
  THEN [c EXCEPT !.sink = "closed", !.closes = @ + 1]
  ELSE [c EXCEPT !.escaped = TRUE]

\* Lines 328-332 and 353-358: try { controller.close() } catch { log }.
SafeClose(c) ==
  IF c.sink = "open"
  THEN [c EXCEPT !.sink = "closed", !.closes = @ + 1]
  ELSE [c EXCEPT !.swallowed = @ + 1]

\* Variant of SafeErrorFrame without the try/catch: the TypeError of an
\* enqueue on a closed stream leaves start().
UnguardedErrorFrame(c, errorText) ==
  IF c.sink = "open"
  THEN [c EXCEPT !.frames = Append(@, [type |-> "error", error |-> errorText])]
  ELSE [c EXCEPT !.escaped = TRUE]

\* Lines 341-350: try { controller.enqueue(error frame) } catch { log }.
\* errorText is error.message for an Error, "Stream error" otherwise.
SafeErrorFrame(c, errorText) ==
  IF c.sink = "open"
  THEN [c EXCEPT !.frames = Append(@, [type |-> "error", error |-> errorText])]
  ELSE [c EXCEPT !.swallowed = @ + 1]

\* Lines 337-359: the catch block of start().
CatchBlock(c, errorText) ==
  [SafeClose(SafeErrorFrame(c, errorText)) EXCEPT !.spc = "done"]

\* What the iterator may throw: an Error with a message, or another value.
ThrownTexts == {<<"upstream failed">>, <<"Stream error">>}

\* Variant of Enqueue that holds the text of a text-delta back and sends it
\* merged into the frame of the next one.
EnqueueCoalesced(c, adapted) ==
  IF /\ c.frames # <<>>
     /\ c.frames[Len(c.frames)].type = "text-delta"
     /\ adapted.type = "text-delta"
  THEN [c EXCEPT !.frames[Len(c.frames)].text = @ \o adapted.text]
  ELSE [c EXCEPT !.frames = Append(@, adapted)]

\* Lines 302-303: controller.enqueue(encoder.encode(sseData)) on a readable
\* stream: one frame per call, queued behind the frames already written.
Enqueue(c, adapted) == [c EXCEPT !.frames = Append(@, adapted)]

\* One turn of the `for await` loop, lines 265-336, for the event yielded.
HandleMessage(c, message) ==
  IF message.js \in {"null", "undefined"}
  THEN \* line 266: message.type of null throws a TypeError
       CatchBlock(c, <<"TypeError">>)
  ELSE LET adapted == adaptIFlowMessage(message)
       IN IF adapted = NullSSE
          THEN c
          ELSE LET a == Accumulate(c, adapted)
               IN IF a.sink # "open"
                  THEN \* lines 304-308: enqueue threw, break
                       [a EXCEPT !.swallowed = @ + 1, !.spc = "done"]
                  ELSE LET w == Enqueue(a, adapted)
                       IN IF IsTerminal(adapted)
                          THEN [SafeClose(SaveAssistant(w)) EXCEPT !.spc = "done"]
                          ELSE w

\* The iterator yields its next event.
IterateNext ==
  /\ co.spc = "iterating"
  /\ upstream # <<>>
  /\ upstream' = Tail(upstream)
  /\ pulled' = Append(pulled, Head(upstream))
  /\ co' = HandleMessage(co, Head(upstream))
  /\ UNCHANGED <<ending, pulledAtCancel, offStream>>

\* The iterator is exhausted: the loop ends and start() returns.
IteratorEnds ==
  /\ co.spc = "iterating"
  /\ upstream = <<>>
  /\ ending = "end"
  /\ co' = [co EXCEPT !.spc = "done"]
  /\ UNCHANGED <<upstream, ending, pulled, pulledAtCancel, offStream>>

\* The iterator throws.
IteratorThrows ==
  /\ co.spc = "iterating"
  /\ upstream = <<>>
  /\ ending = "throw"
  /\ \E errorText \in ThrownTexts : co' = CatchBlock(co, errorText)
  /\ UNCHANGED <<upstream, ending, pulled, pulledAtCancel, offStream>>

\* The client cancels the response (collectingStream.cancel only logs).
Cancel ==
  /\ co.spc # "idle"
  /\ co.sink = "open"
  /\ co' = [co EXCEPT !.sink = "cancelled"]
  /\ pulledAtCancel' = Len(pulled)
  /\ UNCHANGED <<upstream, ending, pulled, offStream>>

(***************************************************************************)
(* The browser side: messagesReducer of use-iflow-chat.ts.  Reference      *)
(* identity matters to it, so objects live in a heap: heap.msgs holds the  *)
(* message objects and heap.arrs the transcript arrays (sequences of       *)
(* indexes into heap.msgs), both in allocation order; a reference is an    *)
(* index.  An object literal or an array built by slice()/spread is a new  *)
(* allocation.  Of a tool call the fields toolName, status and result are  *)
(* kept (id, label, args and error are copied the same way).               *)
(***************************************************************************)
HeapStart == [msgs |-> <<>>, arrs |-> << <<>> >>]

NewMessage(role) ==
  [role |-> role, content |-> "", agentInfo |-> "undefined", toolCalls |-> <<>>,
   plan |-> <<>>, stopReason |-> "undefined"]

\* The array state points to, and its last message object.
Arr(h, state) == h.arrs[state]
LastRef(h, state) == Arr(h, state)[Len(Arr(h, state))]
LastMsg(h, state) == h.msgs[LastRef(h, state)]

\* `return state`: nothing is allocated.
Same(h, state) == [heap |-> h, state |-> state]

\* Variant of ReplaceLast that writes into the last message object of the
\* previous transcript and returns the same array.
ReplaceLastInPlace(h, state, m) ==
  [heap |-> [h EXCEPT !.msgs[LastRef(h, state)] = m], state |-> state]

\* const newState = state.slice(); newState[lastIndex] = { ... }; return
\* newState: one new message object, one new array.
ReplaceLast(h, state, m) ==
  LET ref == Len(h.msgs) + 1
      newState == [Arr(h, state) EXCEPT ![Len(Arr(h, state))] = ref]
  IN [heap |-> [msgs |-> Append(h.msgs, m), arrs |-> Append(h.arrs, newState)],
      state |-> Len(h.arrs) + 1]

\* toolCalls.findIndex(tc => tc.toolName === toolName): 0 for -1.
RECURSIVE FindIndex(_, _, _)
FindIndex(toolCalls, toolName, i) ==
  IF i > Len(toolCalls) THEN 0
  ELSE IF toolCalls[i].toolName = toolName THEN i
       ELSE FindIndex(toolCalls, toolName, i + 1)

\* Variant of MergeToolCall that always appends.
AppendToolCall(toolCalls, payload) == Append(toolCalls, payload)

\* existingIndex >= 0 ? toolCalls.map(...{ ...tc, ...action.payload }) :
\* [...toolCalls, action.payload].  The payload built by the reader loop
\* has every key, so every field of tc is overwritten, by undefined too.

MergeToolCall(toolCalls, payload) ==
  LET existingIndex == FindIndex(toolCalls, payload.toolName, 1)
  IN IF existingIndex > 0
     THEN [toolCalls EXCEPT ![existingIndex] = payload]
     ELSE Append(toolCalls, payload)

\* Variant of LastIsAssistant without the role test.
AnyLast(h, state) == Len(Arr(h, state)) > 0

\* The guard of the UPDATE_LAST_* and FINISH cases: state.length === 0 and
\* lastMsg.role !== "assistant" both return state.

LastIsAssistant(h, state) ==
  /\ Len(Arr(h, state)) > 0
  /\ LastMsg(h, state).role = "assistant"

\* Variant of NewContent that appends the payload to the content.
AppendedContent(content, payload) == content \o payload

\* content: action.payload
NewContent(content, payload) == payload

messagesReducer(h, state, action) ==
  CASE action.type = "SET_MESSAGES" ->
         \* the payload array and its objects were built by the caller
         [heap |-> [msgs |-> h.msgs \o action.payload,
                    arrs |-> Append(h.arrs,
                               [i \in 1..Len(action.payload) |-> Len(h.msgs) + i])],
          state |-> Len(h.arrs) + 1]
    [] action.type = "ADD_MESSAGE" ->
         [heap |-> [msgs |-> Append(h.msgs, action.payload),
                    arrs |-> Append(h.arrs,
                               Append(Arr(h, state), Len(h.msgs) + 1))],
          state |-> Len(h.arrs) + 1]
    [] action.type = "UPDATE_LAST_CONTENT" ->
         IF ~LastIsAssistant(h, state) THEN Same(h, state)
         ELSE ReplaceLast(h, state,
                [LastMsg(h, state) EXCEPT
                   !.content = NewContent(@, action.payload),
                   !.agentInfo = IF action.agentInfo # "undefined"
                                 THEN action.agentInfo ELSE @])
    [] action.type = "UPDATE_LAST_TOOL_CALL" ->
         IF ~LastIsAssistant(h, state) THEN Same(h, state)
         ELSE ReplaceLast(h, state,
                [LastMsg(h, state) EXCEPT
                   !.toolCalls = MergeToolCall(@, action.payload)])
    [] action.type = "UPDATE_LAST_PLAN" ->
         IF ~LastIsAssistant(h, state) THEN Same(h, state)
         ELSE ReplaceLast(h, state,
                [LastMsg(h, state) EXCEPT !.plan = action.payload])
    [] action.type = "FINISH_LAST_MESSAGE" ->
         IF ~LastIsAssistant(h, state) THEN Same(h, state)
         ELSE ReplaceLast(h, state,
                [LastMsg(h, state) EXCEPT !.stopReason = action.payload])
    [] action.type = "CLEAR_MESSAGES" ->
         [heap |-> [h EXCEPT !.arrs = Append(@, <<>>)], state |-> Len(h.arrs) + 1]
    [] OTHER -> Same(h, state)

(***************************************************************************)
(* The response body and the reader loop of sendMessage.  A frame is       *)
(* `data: ` + JSON + two newlines; the JSON text of an event is three      *)
(* characters, a brace, a character that stands for the event's fields,    *)
(* and a brace, and JSON.parse throws on anything else, on a part of a     *)
(* JSON text too.  The body is the UTF-8 encoding of the frames: one byte  *)
(* per character, except for the character U+00E9, which takes two.        *)
(***************************************************************************)
Newline == "\n"
DataPrefix == <<"d", "a", "t", "a", ":", " ">>
Codes == {"a", "U+00E9", "x", "y", "z", "p", "f", "e"}
\* The events the response bodies are made of: one of each type.
FeedCodes == {"U+00E9", "x", "p", "f", "e"}

SSEOf(code) ==
  CASE code = "a" -> [type |-> "text-delta", text |-> "A", agentInfo |-> "undefined"]
    [] code = "U+00E9" -> [type |-> "text-delta", text |-> "B", agentInfo |-> "agent"]
    [] code = "x" -> [type |-> "tool-call", toolName |-> "t1",
                      status |-> "executing", result |-> "undefined"]
    [] code = "y" -> [type |-> "tool-call", toolName |-> "t1",
                      status |-> "completed", result |-> "X"]
    [] code = "z" -> [type |-> "tool-call", toolName |-> "t2",
                      status |-> "executing", result |-> "undefined"]
    [] code = "p" -> [type |-> "plan", entries |-> <<"step">>]
    [] code = "f" -> [type |-> "finish", stopReason |-> "end_turn"]
    [] code = "e" -> [type |-> "error", error |-> "boom"]

\* `data: ${JSON.stringify(data)}\n\n`
Frame(code) == DataPrefix \o <<"{", code, "}">> \o <<Newline, Newline>>

RECURSIVE Body(_)
Body(codes) == IF codes = <<>> THEN <<>> ELSE Frame(Head(codes)) \o Body(Tail(codes))

\* encoder.encode(sseData)
RECURSIVE Encode(_)
Encode(text) ==
  IF text = <<>> THEN <<>>
  ELSE (IF Head(text) = "U+00E9" THEN <<"0xC3", "0xA9">> ELSE <<Head(text)>>)
       \o Encode(Tail(text))

\* decoder.decode(value, { stream: true }): a lead byte at the end of a
\* chunk is kept until its continuation byte arrives; a lead byte followed
\* by anything else decodes to U+FFFD.
RECURSIVE Decode(_, _)
Decode(pending, bytes) ==
  IF bytes = <<>> THEN [chars |-> <<>>, pending |-> pending]
  ELSE IF pending = <<>>
       THEN IF Head(bytes) = "0xC3" THEN Decode(<<"0xC3">>, Tail(bytes))
            ELSE LET d == Decode(<<>>, Tail(bytes))
                 IN [d EXCEPT !.chars = <<Head(bytes)>> \o @]
       ELSE IF Head(bytes) = "0xA9"
            THEN LET d == Decode(<<>>, Tail(bytes))
                 IN [d EXCEPT !.chars = <<"U+00E9">> \o @]
            ELSE LET d == Decode(<<>>, bytes)
                 IN [d EXCEPT !.chars = <<"U+FFFD">> \o @]

SyntaxError == [type |-> "SyntaxError"]

JSONParse(text) ==
  IF Len(text) = 3 /\ text[1] = "{" /\ text[3] = "}" /\ text[2] \in Codes
  THEN SSEOf(text[2])
  ELSE SyntaxError

\* buffer.split("\n"): the pieces between the newlines, one more than there
\* are newlines.
RECURSIVE Split(_)
Split(text) ==
  IF text = <<>> THEN << <<>> >>
  ELSE LET rest == Split(Tail(text))
       IN IF Head(text) = Newline
          THEN << <<>> >> \o rest
          ELSE << <<Head(text)>> \o Head(rest) >> \o Tail(rest)

Front(lines) == SubSeq(lines, 1, Len(lines) - 1)

\* Variant of Carry that starts every chunk with an empty buffer.
CarryNothing(lines) == <<>>

\* buffer = lines.pop() || ""
Carry(lines) == lines[Len(lines)]

\* !line.trim()
IsBlank(line) == \A i \in 1..Len(line) : line[i] = " "

\* line.startsWith("data: ")
StartsWithData(line) ==
  Len(line) >= Len(DataPrefix) /\ SubSeq(line, 1, Len(DataPrefix)) = DataPrefix

\* What one line gives the switch: the parsed event, or nothing for a
\* blank line, a line without the prefix, or a JSON.parse that threw (the
\* catch logs it).
NoEvent == [type |-> "none"]

\* Variant of LineEvent without the inner try/catch: the SyntaxError ends
\* the loop like an error event.
LineEventUncaught(line) ==
  IF IsBlank(line) \/ ~StartsWithData(line) THEN NoEvent
  ELSE LET data == JSONParse(SubSeq(line, Len(DataPrefix) + 1, Len(line)))
       IN IF data = SyntaxError THEN [type |-> "error", error |-> "SyntaxError"]
          ELSE data

LineEvent(line) ==
  IF IsBlank(line) \/ ~StartsWithData(line) THEN NoEvent
  ELSE LET data == JSONParse(SubSeq(line, Len(DataPrefix) + 1, Len(line)))
       IN IF data = SyntaxError THEN NoEvent ELSE data

\* for (const line of lines): the events handled, in order; the `break`
\* after a finish or error event leaves the for loop.
RECURSIVE ForLines(_)
ForLines(lines) ==
  IF lines = <<>> THEN <<>>
  ELSE LET data == LineEvent(Head(lines))
       IN IF data = NoEvent THEN ForLines(Tail(lines))
          ELSE IF data.type \in {"finish", "error"} THEN <<data>>
          ELSE <<data>> \o ForLines(Tail(lines))

\* The action the switch dispatches for an event (none for error, which
\* calls setError).
ActionOf(data) ==
  CASE data.type = "text-delta" ->
         [type |-> "UPDATE_LAST_CONTENT", payload |-> data.text,
          agentInfo |-> data.agentInfo]
    [] data.type = "tool-call" ->
         [type |-> "UPDATE_LAST_TOOL_CALL",
          payload |-> [toolName |-> data.toolName, status |-> data.status,
                       result |-> data.result]]
    [] data.type = "plan" ->
         [type |-> "UPDATE_LAST_PLAN", payload |-> data.entries]
    [] data.type = "finish" ->
         [type |-> "FINISH_LAST_MESSAGE", payload |-> data.stopReason]

\* The hook's state as the loop body changes it.
Hook == [heap |-> heap, state |-> messages, dispatched |-> dispatched,
         error |-> reader.error]

DispatchTo(c, action) ==
  LET r == messagesReducer(c.heap, c.state, action)
  IN [c EXCEPT !.heap = r.heap, !.state = r.state,
               !.dispatched = Append(@, action)]

HandleEvent(c, data) ==
  IF data.type = "error" THEN [c EXCEPT !.error = data.error]
  ELSE DispatchTo(c, ActionOf(data))

RECURSIVE HandleEvents(_, _)
HandleEvents(c, events) ==
  IF events = <<>> THEN c
  ELSE HandleEvents(HandleEvent(c, Head(events)), Tail(events))

ReaderIdle ==
  [spc |-> "idle", pos |-> 0, pending |-> <<>>, buffer |-> <<>>,
   events |-> <<>>, error |-> "null"]

\* sendMessage up to the awaited fetch: the user message and the assistant
\* placeholder are added and the error is cleared.
SendMessage ==
  /\ reader.spc = "idle"
  /\ LET c == DispatchTo(DispatchTo(Hook,
                [type |-> "ADD_MESSAGE", payload |-> NewMessage("user")]),
                [type |-> "ADD_MESSAGE", payload |-> NewMessage("assistant")])
     IN /\ heap' = c.heap
        /\ messages' = c.state
        /\ dispatched' = c.dispatched
  /\ reader' = [reader EXCEPT !.spc = "fetching", !.error = "null"]
  /\ UNCHANGED <<frameCodes, feed, offClient>>

\* The response is ok and has a body: the reader is taken.
FetchOk ==
  /\ reader.spc = "fetching"
  /\ reader' = [reader EXCEPT !.spc = "reading"]
  /\ UNCHANGED <<frameCodes, feed, heap, messages, dispatched>>
  /\ UNCHANGED offClient

\* fetch rejects, or the response is not ok: the catch block sets the error
\* and shows it in the last message.
FetchFailed ==
  /\ reader.spc = "fetching"
  /\ LET c == DispatchTo(Hook, [type |-> "UPDATE_LAST_CONTENT",
                               payload |-> "fetch error",
                               agentInfo |-> "undefined"])
     IN /\ heap' = c.heap
        /\ messages' = c.state
        /\ dispatched' = c.dispatched
  /\ reader' = [reader EXCEPT !.spc = "done", !.error = "fetch error"]
  /\ UNCHANGED <<frameCodes, feed, offClient>>

\* One reader.read() that delivers the next n bytes of the body: one pass
\* of the while loop.
ReadChunk(n) ==
  /\ reader.spc = "reading"
  /\ n \in 1..(Len(feed) - reader.pos)
  /\ LET value == SubSeq(feed, reader.pos + 1, reader.pos + n)
         decoded == Decode(reader.pending, value)
         lines == Split(reader.buffer \o decoded.chars)
         events == ForLines(Front(lines))
         c == HandleEvents(Hook, events)
     IN /\ reader' = [reader EXCEPT !.pos = @ + n, !.pending = decoded.pending,
                                    !.buffer = Carry(lines),
                                    !.events = @ \o events, !.error = c.error]
        /\ heap' = c.heap
        /\ messages' = c.state
        /\ dispatched' = c.dispatched
  /\ UNCHANGED <<frameCodes, feed, offClient>>

\* reader.read() reports done: the while loop ends.
ReadDone ==
  /\ reader.spc = "reading"
  /\ reader.pos = Len(feed)
  /\ reader' = [reader EXCEPT !.spc = "done"]
  /\ UNCHANGED <<frameCodes, feed, heap, messages, dispatched>>
  /\ UNCHANGED offClient

\* stopGeneration: the pending fetch or read rejects with an AbortError,
\* which the catch block only logs.
Abort ==
  /\ reader.spc \in {"fetching", "reading"}
  /\ reader' = [reader EXCEPT !.spc = "done"]
  /\ UNCHANGED <<frameCodes, feed, heap, messages, dispatched>>
  /\ UNCHANGED offClient

\* React runs the reducer on a dispatched action: any of the actions the
\* hook dispatches (sendMessage, the reader loop, clearMessages, the
\* history load), in any order.
MaxDispatch == 4

LoadedMessages ==
  {<<>>, <<NewMessage("user")>>,
   <<NewMessage("user"), [NewMessage("assistant") EXCEPT !.content = "old"]>>}

Actions ==
  {ActionOf(SSEOf(code)) : code \in Codes \ {"e"}}
  \cup {[type |-> "ADD_MESSAGE", payload |-> NewMessage(role)] :
          role \in {"user", "assistant"}}
  \cup {[type |-> "SET_MESSAGES", payload |-> loaded] : loaded \in LoadedMessages}
  \cup {[type |-> "CLEAR_MESSAGES"]}

Dispatch(action) ==
  /\ Len(dispatched) < MaxDispatch
  /\ LET c == DispatchTo(Hook, action)
     IN /\ heap' = c.heap
        /\ messages' = c.state
        /\ dispatched' = c.dispatched
  /\ UNCHANGED <<frameCodes, feed, reader, offClient>>

\* The history load of the mount effect has fetched the stored messages
\* (lines 253-270): SET_MESSAGES, whatever sendMessage is doing meanwhile.
\* The effect runs once for a workspace (its dependencies, line 292).
HistoryLoaded ==
  /\ \A j \in 1..Len(dispatched) : dispatched[j].type # "SET_MESSAGES"
  /\ \E loaded \in LoadedMessages :
       Dispatch([type |-> "SET_MESSAGES", payload |-> loaded])

MaxClears == 1

\* clearMessages, lines 542-544.
ClearMessages ==
  /\ Cardinality({j \in 1..Len(dispatched) :
                    dispatched[j].type = "CLEAR_MESSAGES"}) < MaxClears
  /\ Dispatch([type |-> "CLEAR_MESSAGES"])

(***************************************************************************)
(* sendMessage across renders.  The callback is made by useCallback with   *)
(* isStreaming among its dependencies: the isStreaming its guard reads is  *)
(* the value of the render that made the callback, and setIsStreaming      *)
(* changes the state at once and the callback only with the next render.   *)
(* What a call does with its response is left out here.                    *)
(***************************************************************************)
MaxSendCalls == 5

\* Lines 297-377, up to the awaited fetch, for a content that is not blank.
SendMessageCall ==
  /\ sender.sendCalls < MaxSendCalls
  /\ IF sender.closure
     THEN \* lines 304-307: already streaming, the call is ignored
          /\ sender' = [sender EXCEPT !.sendCalls = @ + 1]
          /\ UNCHANGED <<heap, messages, dispatched>>
     ELSE LET c == DispatchTo(DispatchTo(Hook,
                     [type |-> "ADD_MESSAGE", payload |-> NewMessage("user")]),
                     [type |-> "ADD_MESSAGE", payload |-> NewMessage("assistant")])
          IN /\ heap' = c.heap
             /\ messages' = c.state
             /\ dispatched' = c.dispatched
             /\ sender' = [sender EXCEPT !.sendCalls = @ + 1,
                                         !.isStreaming = TRUE,
                                         !.inFlight = @ + 1,
                                         !.requests = @ + 1]
  /\ UNCHANGED <<frameCodes, feed, reader, offSender>>

\* Lines 496-500: the finally block of a call.
SendMessageFinished ==
  /\ sender.inFlight > 0
  /\ sender' = [sender EXCEPT !.isStreaming = FALSE, !.inFlight = @ - 1]
  /\ UNCHANGED <<clientVars, offSender>>

\* React renders the component again after a state change: useCallback
\* makes a callback that closes over the current isStreaming.
Render ==
  /\ sender.closure # sender.isStreaming
  /\ sender' = [sender EXCEPT !.closure = sender.isStreaming]
  /\ UNCHANGED <<clientVars, offSender>>

(***************************************************************************)
(* The route handler after its sendMessage call, for the sessions of the   *)
(* pool.  outbound[id] holds the sendMessage calls made on session id; a   *)
(* call settles some time later.  When it rejects the handler answers 500. *)
(* When it resolves the handler builds the response stream, whose start()  *)
(* begins to coordinate at once, and sets lastActivity on the session      *)
(* object it holds, which is the pool's entry only while that session is   *)
(* still in the Map.                                                       *)
(***************************************************************************)
SessionIds == 1..MaxCalls

Unsettled(id) == id <= Len(outbound) /\ started[id] < Len(outbound[id])

\* iflowSession.lastActivity = new Date(), seen from the Map.
Touch(s, id, t) ==
  [i \in 1..Len(s) |-> IF s[i].id = id THEN [s[i] EXCEPT !.lastActivity = t]
                        ELSE s[i]]

StreamBegin(id) ==
  /\ Unsettled(id)
  /\ started' = [started EXCEPT ![id] = @ + 1]
  /\ active' = [active EXCEPT ![id] = @ + 1]
  /\ firstDelivered' =
       IF firstDelivered[id] = <<>>
       THEN [firstDelivered EXCEPT ![id] = <<outbound[id][started[id] + 1]>>]
       ELSE firstDelivered
  /\ sessions' = Touch(sessions, id, now)
  /\ UNCHANGED <<now, calls, clients, stats, pc, req, tgt, ret, swpc, expired,
                 lastRet, undisturbed, expect>>
  /\ UNCHANGED <<cancelled, offActive>>

\* Lines 237-246: sendMessage rejected.
SendMessageFailed(id) ==
  /\ Unsettled(id)
  /\ started' = [started EXCEPT ![id] = @ + 1]
  /\ UNCHANGED <<active, cancelled, firstDelivered, poolVars, offActive>>

\* start() of a response stream on the session is over.
StreamOver(id) ==
  /\ active[id] > 0
  /\ active' = [active EXCEPT ![id] = @ - 1]
  /\ UNCHANGED <<started, cancelled, firstDelivered, poolVars, offActive>>

\* The clients that go away mid-stream: at most MaxCancels.
MaxCancels == 1

\* Variant of StreamCancel that closes the session of the cancelled stream.
StreamCancelDestroying(id) ==
  /\ active[id] > 0
  /\ Cardinality({i \in SessionIds : cancelled[i] # 0}) < MaxCancels
  /\ cancelled' = [cancelled EXCEPT ![id] = calls]
  /\ sessions' = SelectSeq(sessions, LAMBDA entry : entry.id # id)
  /\ clients' = DisconnectCalled(clients, id)
  /\ UNCHANGED <<now, calls, stats, pc, req, tgt, ret, swpc, expired,
                 lastRet, undisturbed, expect>>
  /\ UNCHANGED <<started, active, firstDelivered, offActive>>

\* cancel() of the response stream (lines 362-364): the client has gone
\* away while the stream of a session is being coordinated.  It logs.
StreamCancel(id) ==
  /\ active[id] > 0
  /\ Cardinality({i \in SessionIds : cancelled[i] # 0}) < MaxCancels
  /\ cancelled' = [cancelled EXCEPT ![id] = calls]
  /\ UNCHANGED <<started, active, firstDelivered, poolVars, offActive>>

(***************************************************************************)
(* Requests on one session.  getOrCreateSession returned the same session  *)
(* to each of them (the reuse path), so they share its client: every       *)
(* sendMessage goes into the one connection and every receiveMessages()    *)
(* iterator takes its events from it.                                      *)
(***************************************************************************)
TurnIdle == [tpc |-> "idle", co |-> CoIdle, origin |-> <<>>]

\* What upstream answers one message with: at most MaxAnswer events and
\* then the finish of the turn.
MaxAnswer == 2

TurnBodies ==
  { [RawObject("text-delta") EXCEPT !.text = <<"b">>],
    [RawObject("tool_call") EXCEPT !.toolName = "read", !.status = "executing"] }

Answers ==
  { body \o <<RawObject("task_finish")>> :
      body \in UNION {[1..n -> TurnBodies] : n \in 0..MaxAnswer} }

AnswerTo(p, events) ==
  [i \in 1..Len(events) |-> [turn |-> p, event |-> events[i]]]

\* Line 235: client.sendMessage(messageToSend).  The connection is one
\* ordered channel: the events that answer the message come after the
\* events already in it.
TurnSend(p) ==
  /\ turn[p].tpc = "idle"
  /\ \E answer \in Answers : channel' = channel \o AnswerTo(p, answer)
  /\ turn' = [turn EXCEPT ![p].tpc = "sending"]
  /\ UNCHANGED offTurn

\* Lines 250-260: sendMessage has resolved; receiveMessages() and the
\* response stream, whose start() begins its loop.
TurnStream(p) ==
  /\ turn[p].tpc = "sending"
  /\ turn' = [turn EXCEPT ![p].tpc = "streaming", ![p].co.spc = "iterating"]
  /\ UNCHANGED <<channel, offTurn>>

\* The iterator of the request yields the next event of the connection, and
\* the loop handles it.
TurnPull(p) ==
  /\ turn[p].tpc = "streaming"
  /\ turn[p].co.spc = "iterating"
  /\ channel # <<>>
  /\ channel' = Tail(channel)
  /\ LET c == HandleMessage(turn[p].co, Head(channel).event)
     IN turn' = [turn EXCEPT
          ![p].co = c,
          ![p].origin = IF Len(c.frames) > Len(turn[p].co.frames)
                        THEN Append(@, Head(channel).turn) ELSE @,
          ![p].tpc = IF c.spc = "done" THEN "done" ELSE "streaming"]
  /\ UNCHANGED offTurn

\* The client of the request cancels its response.
TurnCancel(p) ==
  /\ turn[p].tpc = "streaming"
  /\ turn[p].co.sink = "open"
  /\ turn' = [turn EXCEPT ![p].co.sink = "cancelled"]
  /\ UNCHANGED <<channel, offTurn>>

(***************************************************************************)
(* RateLimiter of lib/security/csrf.ts, as chatRateLimiter is configured.  *)
(* records is the Map from identifier to its record; Date.now() is the     *)
(* clock of the pool.                                                      *)
(***************************************************************************)
\* windowMs is 60 * 1000 and maxRequests is 20 in the source; scaled down
\* so that a window is filled and a window expires.
windowMs == 2
maxRequests == 2

Identifiers == {"u1", "u2"}
\* Number of check() calls made in one behaviour.
MaxChecks == 5

\* Map.set and Map.delete on records.
RecordSet(recs, identifier, record) ==
  [x \in DOMAIN recs \cup {identifier} |->
     IF x = identifier THEN record ELSE recs[x]]

RecordsWithout(recs, gone) == [x \in DOMAIN recs \ gone |-> recs[x]]

\* check(identifier) at time t: the records it leaves and what it returns.
check(recs, identifier, t) ==
  IF identifier \notin DOMAIN recs \/ t >= recs[identifier].resetTime
  THEN \* first request, or the window has expired
       [records |-> RecordSet(recs, identifier,
                      [count |-> 1, resetTime |-> t + windowMs]),
        allowed |-> TRUE, remaining |-> maxRequests - 1,
        resetTime |-> t + windowMs]
  ELSE IF recs[identifier].count < maxRequests
       THEN [records |-> [recs EXCEPT ![identifier].count = @ + 1],
             allowed |-> TRUE,
             remaining |-> maxRequests - (recs[identifier].count + 1),
             resetTime |-> recs[identifier].resetTime]
       ELSE [records |-> recs, allowed |-> FALSE, remaining |-> 0,
             resetTime |-> recs[identifier].resetTime]

Check(identifier) ==
  /\ Len(checks) < MaxChecks
  /\ LET r == check(records, identifier, now)
     IN /\ records' = r.records
        /\ checks' = Append(checks, [identifier |-> identifier, time |-> now,
                                     allowed |-> r.allowed])
  /\ UNCHANGED <<poolVars, offRate>>

\* cleanup(), run by the interval timer of the constructor: every record
\* whose window has expired is deleted.
RateCleanup ==
  /\ LET gone == {x \in DOMAIN records : now >= records[x].resetTime}
     IN /\ gone # {}
        /\ records' = RecordsWithout(records, gone)
  /\ UNCHANGED <<checks, poolVars, offRate>>

(***************************************************************************)
(* Specifications.                                                         *)
(***************************************************************************)
PoolStart ==
  /\ now = 0
  /\ calls = 0
  /\ sessions = <<>>
  /\ clients = <<>>
  /\ stats = [totalCreated |-> 0, totalDestroyed |-> 0, evictionCount |-> 0]
  /\ pc = [p \in Procs |-> "idle"]
  /\ req = [p \in Procs |-> [key |-> NoKey, config |-> NoConfig]]
  /\ tgt = [p \in Procs |-> NoKey]
  /\ ret = [p \in Procs |-> 0]
  /\ swpc = "idle"
  /\ expired = <<>>
  /\ lastRet = [k \in Keys |-> 0]
  /\ undisturbed = [k \in Keys |-> FALSE]
  /\ expect = [p \in Procs |-> 0]

SendStart ==
  /\ isFirstMessage = <<>>
  /\ historyContext = <<>>
  /\ outbound = <<>>

AdminStart ==
  /\ cleanupTimer = TRUE
  /\ apc = "idle"
  /\ akey = NoKey
  /\ aqueue = <<>>
  /\ aprev = [key |-> NoKey, totalCreated |-> 0]
  /\ alast = [n |-> 0, key |-> NoKey, noop |-> FALSE, inRow |-> FALSE]

\* No response is being read and the transcript is empty.
ClientStart ==
  /\ frameCodes = <<>>
  /\ feed = <<>>
  /\ reader = ReaderIdle
  /\ heap = HeapStart
  /\ messages = 1
  /\ dispatched = <<>>

ActiveStart ==
  /\ started = [id \in SessionIds |-> 0]
  /\ active = [id \in SessionIds |-> 0]
  /\ cancelled = [id \in SessionIds |-> 0]
  /\ firstDelivered = [id \in SessionIds |-> <<>>]

SenderStart ==
  sender = [isStreaming |-> FALSE, closure |-> FALSE, sendCalls |-> 0,
            inFlight |-> 0, requests |-> 0]

TurnStart ==
  /\ channel = <<>>
  /\ turn = [p \in Procs |-> TurnIdle]

RateStart ==
  /\ records = [x \in {} |-> 0]
  /\ checks = <<>>

StreamStart ==
  /\ upstream = <<>>
  /\ ending = "end"
  /\ co = CoIdle
  /\ pulled = <<>>
  /\ pulledAtCancel = -1

PoolInit ==
  /\ PoolStart
  /\ SendStart
  /\ AdminStart
  /\ RateStart
  /\ ActiveStart
  /\ TurnStart
  /\ SenderStart
  /\ ClientStart
  /\ StreamStart

Request(p) ==
  \/ GetOrCreateSession(p)
  \/ DestroyOldDone(p)
  \/ EvictDone(p)
  \/ CreateSessionDone(p)
  \/ CreateSessionFailed(p)
  \/ Return(p)

\* Any number of requests in flight at once.
PoolNext ==
  \/ \E p \in Procs : Request(p)
  \/ CleanupExpiredSessions
  \/ CleanupDestroyDone
  \/ Tick

PoolSpec == PoolInit /\ [][PoolNext]_vars

\* One request at a time: successive, non-overlapping calls, with the
\* background sweep running beside them.
SeqNext ==
  \/ Request("r1")
  \/ CleanupExpiredSessions
  \/ CleanupDestroyDone
  \/ Tick

SeqSpec == PoolInit /\ [][SeqNext]_vars

\* The reducer under every sequence of at most MaxDispatch actions.
ReducerInit ==
  /\ PoolStart
  /\ SendStart
  /\ AdminStart
  /\ RateStart
  /\ ActiveStart
  /\ TurnStart
  /\ SenderStart
  /\ ClientStart
  /\ StreamStart

ReducerNext == \E action \in Actions : Dispatch(action)

ReducerSpec == ReducerInit /\ [][ReducerNext]_vars

\* One sendMessage whose response body is any sequence of at most MaxFrames
\* frames, delivered in chunks of any sizes.
MaxFrames == 3

ReaderInit ==
  /\ PoolStart
  /\ SendStart
  /\ AdminStart
  /\ RateStart
  /\ ActiveStart
  /\ TurnStart
  /\ SenderStart
  /\ StreamStart
  /\ frameCodes \in UNION {[1..n -> FeedCodes] : n \in 0..MaxFrames}
  /\ feed = Encode(Body(frameCodes))
  /\ reader = ReaderIdle
  /\ heap = HeapStart
  /\ messages = 1
  /\ dispatched = <<>>

ReaderNext ==
  \/ SendMessage
  \/ FetchOk
  \/ FetchFailed
  \/ \E n \in 1..Len(feed) : ReadChunk(n)
  \/ ReadDone
  \/ Abort

ReaderSpec == ReaderInit /\ [][ReaderNext]_vars

\* One sendMessage whose response body has lines that are not JSON among
\* its frames: the payload of the code Malformed is not a JSON text.
Malformed == "?"

MalformedInit ==
  /\ PoolStart
  /\ SendStart
  /\ AdminStart
  /\ RateStart
  /\ ActiveStart
  /\ TurnStart
  /\ SenderStart
  /\ StreamStart
  /\ frameCodes \in UNION {[1..n -> {"x", "p", "f", Malformed}] : n \in 0..MaxFrames}
  /\ feed = Encode(Body(frameCodes))
  /\ reader = ReaderIdle
  /\ heap = HeapStart
  /\ messages = 1
  /\ dispatched = <<>>

MalformedSpec == MalformedInit /\ [][ReaderNext]_vars

\* One sendMessage and its response body of at most MaxHookFrames frames,
\* with the history load of the mount effect and clearMessages at any
\* moment beside it.
MaxHookFrames == 2

HookInit ==
  /\ ReaderInit
  /\ Len(frameCodes) <= MaxHookFrames

HookNext ==
  \/ ReaderNext
  \/ HistoryLoaded
  \/ ClearMessages

HookSpec == HookInit /\ [][HookNext]_vars

\* The sendMessage calls of one hook instance, at most MaxSendCalls.
SenderNext ==
  \/ SendMessageCall
  \/ SendMessageFinished
  \/ Render

SenderSpec == PoolInit /\ [][SenderNext]_vars

\* The pool with one request at a time and a caller of destroySession
\* beside it, which makes at most MaxDestroys calls.
DestroyNext ==
  \/ Request("r1")
  \/ \E key \in Keys : DestroySession(key)
  \/ DestroySessionDone
  \/ Tick

DestroySpec == PoolInit /\ [][DestroyNext]_vars

\* The pool with one request at a time and destroyAllSessions beside it.
ShutdownNext ==
  \/ Request("r1")
  \/ DestroyAllSessions
  \/ DestroyAllDone
  \/ Tick

ShutdownSpec == PoolInit /\ [][ShutdownNext]_vars

\* The pool with one request at a time and the sweep, and the response
\* streams of the sessions it has returned.
ActiveNext ==
  \/ SeqNext
  \/ \E id \in SessionIds : StreamBegin(id)
  \/ \E id \in SessionIds : SendMessageFailed(id)
  \/ \E id \in SessionIds : StreamOver(id)

ActiveSpec == PoolInit /\ [][ActiveNext]_vars

\* The pool with one request at a time, the response streams of the
\* sessions it has returned, and clients that go away while their stream is
\* being coordinated.
CancelNext ==
  \/ Request("r1")
  \/ Tick
  \/ \E id \in SessionIds : StreamBegin(id)
  \/ \E id \in SessionIds : StreamOver(id)
  \/ \E id \in SessionIds : StreamCancel(id)

CancelSpec == PoolInit /\ [][CancelNext]_vars

\* Two requests on one session, one after the other or at once.
TurnNext ==
  \E p \in Procs :
    \/ TurnSend(p)
    \/ TurnStream(p)
    \/ TurnPull(p)
    \/ TurnCancel(p)

TurnSpec == PoolInit /\ [][TurnNext]_vars

\* The rate limiter under at most MaxChecks check() calls at any times.
RateNext ==
  \/ \E identifier \in Identifiers : Check(identifier)
  \/ RateCleanup
  \/ Tick

RateSpec == PoolInit /\ [][RateNext]_vars

\* One response stream, for every upstream event sequence of at most
\* MaxEvents events that then ends or throws.
MaxEvents == 3

StreamInit ==
  /\ PoolStart
  /\ SendStart
  /\ AdminStart
  /\ RateStart
  /\ ActiveStart
  /\ TurnStart
  /\ SenderStart
  /\ ClientStart
  /\ upstream \in UNION {[1..n -> RawEvents] : n \in 0..MaxEvents}
  /\ ending \in {"end", "throw"}
  /\ co = [CoIdle EXCEPT !.spc = "iterating"]
  /\ pulled = <<>>
  /\ pulledAtCancel = -1

StreamNext ==
  \/ IterateNext
  \/ IteratorEnds
  \/ IteratorThrows
  \/ Cancel

StreamSpec == StreamInit /\ [][StreamNext]_vars

\* One response stream whose upstream yields an error event, or nothing.
ErrorInit ==
  /\ PoolStart
  /\ SendStart
  /\ AdminStart
  /\ RateStart
  /\ ActiveStart
  /\ TurnStart
  /\ SenderStart
  /\ ClientStart
  /\ upstream \in {<<>>} \cup {<<message>> : message \in ErrorEvents}
  /\ ending \in {"end", "throw"}
  /\ co = [CoIdle EXCEPT !.spc = "iterating"]
  /\ pulled = <<>>
  /\ pulledAtCancel = -1

ErrorSpec == ErrorInit /\ [][StreamNext]_vars

(***************************************************************************)
(* Properties of the session pool.                                         *)
(***************************************************************************)
\* A connection is live from connect() until disconnect() is first invoked.
Live(id) == clients[id].disconnectCalls = 0

LiveFor(key) == {id \in 1..Len(clients) : clients[id].key = key /\ Live(id)}

\* A getOrCreateSession call of request p ends in this step.
Returns(p) == pc[p] # "done" /\ pc'[p] = "done"

\* C1: at no time do two live upstream connections exist for one
\* (userId, workspaceId) key, whatever the interleaving of getOrCreateSession
\* calls and destroys of that key.
C1_OneLiveConnectionPerKey == \A key \in Keys : Cardinality(LiveFor(key)) <= 1

\* C2: in a sequence of non-overlapping getOrCreateSession calls on one key
\* with the same modelName and permissionMode, with no destroy, sweep or
\* eviction of that key in between, every call returns the session with the
\* id the call before it returned.  expect[p] is that id when the call of p
\* is such a call: the key's last return had the same config and no destroy
\* of the key has begun or ended since.
C2_ReuseSameId ==
  [][\A p \in Procs :
       (Returns(p) /\ expect'[p] # 0) => ret'[p] = expect'[p]]_vars

\* A call that reuse owed a session has returned it, some time after the
\* session was created.
C2_Witness ==
  \E p \in Procs :
    /\ pc[p] = "done"
    /\ expect[p] # 0
    /\ ret[p] = expect[p]
    /\ Has(sessions, req[p].key)
    /\ LET e == sessions[Idx(sessions, req[p].key)]
       IN e.id = ret[p] /\ e.createdAt < e.lastActivity

\* C3: when two successive getOrCreateSession calls for one key differ in
\* modelName or permissionMode, the second returns a session with another id
\* and disconnect() has been invoked exactly once on the old session's client.
C3_ConfigChangeNewIdOneDisconnect ==
  [][\A p \in Procs :
       LET key == req'[p].key
       IN (/\ Returns(p)
           /\ ret'[p] # 0
           /\ lastRet[key] # 0
           /\ clients[lastRet[key]].config # req'[p].config)
          => (/\ ret'[p] # lastRet[key]
              /\ clients'[lastRet[key]].disconnectCalls = 1)]_vars

\* C4: the pool never holds more than MAX_SESSIONS sessions.
C4_SizeBounded == Len(sessions) <= MAX_SESSIONS

\* C5: when the pool holds MAX_SESSIONS sessions and getOrCreateSession is
\* called for a key that is not in it, the call destroys exactly one session
\* before it creates the new one: the one with the smallest lastActivity of
\* the whole pool.
C5_EvictsOldest ==
  [][\A p \in Procs :
       (/\ pc[p] = "idle"
        /\ pc'[p] # "idle"
        /\ Len(sessions) = MAX_SESSIONS
        /\ ~Has(sessions, req'[p].key))
       => (/\ pc'[p] = "evicting"
           /\ Has(sessions, tgt'[p])
           /\ \A i \in 1..Len(sessions) :
                sessions[Idx(sessions, tgt'[p])].lastActivity
                  <= sessions[i].lastActivity)]_vars

\* C6: a sweep cycle destroys every session with
\* now - lastActivity > SESSION_TIMEOUT and never destroys a session whose
\* lastActivity is within SESSION_TIMEOUT of now, also when getOrCreateSession
\* refreshes it while the sweep is in progress.
C6_SweepDestroysOnlyExpired ==
  [][/\ (swpc = "idle" /\ swpc' = "destroying")
        => \A i \in 1..Len(sessions) :
             (now - sessions[i].lastActivity > SESSION_TIMEOUT)
             => \E j \in 1..Len(expired') : expired'[j] = sessions[i].key
     /\ (swpc = "destroying" /\ expired' # expired /\ Has(sessions, Head(expired)))
        => now - sessions[Idx(sessions, Head(expired))].lastActivity
             > SESSION_TIMEOUT]_vars

(***************************************************************************)
(* Properties of the stream coordinator.                                   *)
(***************************************************************************)
TerminalFrame(f) == f.type = "finish" \/ f.type = "error"

HasTerminal(frames) == \E i \in 1..Len(frames) : TerminalFrame(frames[i])

\* A raw event the normalizer does not recognize: not an object, or an
\* object with an unknown type.
Unrecognized(message) ==
  \/ message.js # "object"
  \/ message.type \notin {"assistant", "text-delta", "tool_call", "plan",
                          "task_finish", "finish", "error"}

\* C7: every stream the coordinator starts closes its output sink, whether
\* the upstream sequence ends in finish or error, ends without a terminal
\* event, holds only unrecognized events, or throws: once start() is over
\* the sink is no longer open.
C7_DoneImpliesClosed == co.spc = "done" => co.sink # "open"

\* C8: once a frame carrying finish or error is written, no further frame
\* is written and no further upstream event is pulled; a stream carries at
\* most one terminal frame and it is the last one.
C8_NothingAfterTerminal ==
  /\ [](\A i \in 1..Len(co.frames) :
          TerminalFrame(co.frames[i]) => i = Len(co.frames))
  /\ [][HasTerminal(co.frames)
          => (co'.frames = co.frames /\ upstream' = upstream)]_vars

\* A terminal frame is written while the iterator has more to yield.
C8_Witness == HasTerminal(co.frames) /\ upstream # <<>> /\ co.spc = "done"

\* C9: on finish or error the sink is closed exactly once, and a write or a
\* close attempted on a sink that is already closed never lets an exception
\* out of the coordinator.
C9_CloseOnceNeverThrows ==
  /\ ~co.escaped
  /\ co.closes <= 1
  /\ HasTerminal(co.frames) => (co.closes = 1 /\ co.sink = "closed")

\* The client has cancelled, and the coordinator then tried to write and to
\* close: both attempts were caught.
C9_Witness == co.spc = "done" /\ co.sink = "cancelled" /\ co.swallowed >= 2

\* C10: a raw event the normalizer does not recognize normalizes to null,
\* produces no frame and does not abort the stream: the coordinator goes on
\* to the next upstream event.
C10_UnrecognizedSkipped ==
  [][(/\ co.spc = "iterating"
      /\ upstream # <<>>
      /\ upstream' # upstream
      /\ Unrecognized(Head(upstream)))
     => (/\ adaptIFlowMessage(Head(upstream)) = NullSSE
         /\ co'.frames = co.frames
         /\ co'.spc = "iterating")]_vars

(***************************************************************************)
(* Properties of the reader loop.                                          *)
(***************************************************************************)
\* At most one terminal frame, and only as the last frame.
TerminalAtEndOnly(codes) ==
  \A i \in 1..(Len(codes) - 1) : codes[i] \notin {"f", "e"}

RECURSIVE NewlinesIn(_)
NewlinesIn(bytes) ==
  IF bytes = <<>> THEN 0
  ELSE (IF Head(bytes) = Newline THEN 1 ELSE 0) + NewlinesIn(Tail(bytes))

\* The frames whose line is complete in the bytes read so far: a frame
\* ends with two newlines, and its line is complete at the first.
FramesArrived == (NewlinesIn(SubSeq(feed, 1, reader.pos)) + 1) \div 2

TerminalEvent(data) == data.type \in {"finish", "error"}

\* C11: for a body of well-formed frames with at most one terminal frame,
\* at the end, and for every way of cutting it into chunks, the events the
\* reader loop has handled are at every moment exactly the events of the
\* frames whose line has completely arrived, in order: at the end of the
\* body the events of the unsplit body, and never an event for a line whose
\* newline has not arrived.
C11_ChunkingInvisible ==
  TerminalAtEndOnly(frameCodes)
    => reader.events = [i \in 1..FramesArrived |-> SSEOf(frameCodes[i])]

\* A chunk has ended inside a line (and inside the two-byte character) after
\* an earlier frame was handled, and the rest of the line is carried over.
C11_Witness ==
  /\ reader.spc = "reading"
  /\ reader.events # <<>>
  /\ reader.buffer # <<>>
  /\ reader.pending # <<>>
  /\ TerminalAtEndOnly(frameCodes)

\* C12: once the reader loop has handled a finish or error event, no later
\* bytes of the body produce a further event or change the transcript or
\* the error.
C12_NothingAfterTerminalEvent ==
  [][(\E i \in 1..Len(reader.events) : TerminalEvent(reader.events[i]))
       => /\ reader'.events = reader.events
          /\ reader'.error = reader.error
          /\ heap' = heap
          /\ messages' = messages]_vars

(***************************************************************************)
(* Properties of the reducer.                                              *)
(***************************************************************************)
\* The role of the last message of a transcript, "none" for an empty one.
LastRole(h, state) ==
  IF Len(h.arrs[state]) = 0 THEN "none"
  ELSE h.msgs[h.arrs[state][Len(h.arrs[state])]].role

\* The actions the reader loop dispatches for stream events.
StreamActionTypes ==
  {"UPDATE_LAST_CONTENT", "UPDATE_LAST_TOOL_CALL", "UPDATE_LAST_PLAN",
   "FINISH_LAST_MESSAGE"}

\* This step runs the reducer on one action of one of the given types.
Dispatches(types) ==
  /\ Len(dispatched') = Len(dispatched) + 1
  /\ dispatched'[Len(dispatched')].type \in types

LastDispatched == dispatched[Len(dispatched)]

UniqueToolNames(toolCalls) ==
  \A i, j \in 1..Len(toolCalls) :
    toolCalls[i].toolName = toolCalls[j].toolName => i = j

\* C13: tool-call actions applied to assistant messages whose toolCalls
\* start empty leave at most one entry per toolName in every message, and
\* after each such action the entry of its toolName is exactly the action's
\* payload: the status and result of the latest event for that name.
C13_OneEntryPerToolName ==
  /\ [](\A r \in 1..Len(heap.msgs) : UniqueToolNames(heap.msgs[r].toolCalls))
  /\ [][(Dispatches({"UPDATE_LAST_TOOL_CALL"})
          /\ LastRole(heap, messages) = "assistant")
        => LET toolCalls == LastMsg(heap', messages').toolCalls
               payload == dispatched'[Len(dispatched')].payload
           IN \E i \in 1..Len(toolCalls) :
                /\ toolCalls[i] = payload
                /\ \A j \in 1..Len(toolCalls) :
                     toolCalls[j].toolName = payload.toolName => j = i]_vars

\* executing, then completed with result X, for the same toolName: one
\* entry, completed, with result X.
C13_Witness ==
  /\ Len(dispatched) >= 2
  /\ dispatched[Len(dispatched) - 1] = ActionOf(SSEOf("x"))
  /\ LastDispatched = ActionOf(SSEOf("y"))
  /\ LastRole(heap, messages) = "assistant"
  /\ LastMsg(heap, messages).toolCalls =
       <<[toolName |-> "t1", status |-> "completed", result |-> "X"]>>

\* C14: a text-delta action applied to a transcript whose last message is
\* an assistant message sets that message's content to exactly the
\* action's text, whatever the content was.
C14_ContentReplaced ==
  [][(Dispatches({"UPDATE_LAST_CONTENT"})
       /\ LastRole(heap, messages) = "assistant")
     => LastMsg(heap', messages').content
          = dispatched'[Len(dispatched')].payload]_vars

\* Two text-delta actions with different texts in a row: the content is the
\* second text.
C14_Witness ==
  /\ Len(dispatched) >= 2
  /\ dispatched[Len(dispatched) - 1].type = "UPDATE_LAST_CONTENT"
  /\ LastDispatched.type = "UPDATE_LAST_CONTENT"
  /\ dispatched[Len(dispatched) - 1].payload # LastDispatched.payload
  /\ LastRole(heap, messages) = "assistant"
  /\ LastMsg(heap, messages).content = LastDispatched.payload

\* C15: a reducer step for a stream event changes no object and no array
\* that existed before it, and the transcript it returns has the same
\* length and, at every position but the last, the same message object.
C15_CopyOnWrite ==
  [][Dispatches(StreamActionTypes)
     => /\ \A r \in 1..Len(heap.msgs) : heap'.msgs[r] = heap.msgs[r]
        /\ \A a \in 1..Len(heap.arrs) : heap'.arrs[a] = heap.arrs[a]
        /\ Len(heap'.arrs[messages']) = Len(heap.arrs[messages])
        /\ \A i \in 1..(Len(heap.arrs[messages]) - 1) :
             heap'.arrs[messages'][i] = heap.arrs[messages][i]]_vars

\* A stream event was applied to a transcript of several messages: the
\* transcript is a new array whose last message is a new object.
C15_Witness ==
  /\ dispatched # <<>>
  /\ LastDispatched.type \in StreamActionTypes
  /\ Len(heap.arrs[messages]) >= 2
  /\ messages = Len(heap.arrs)
  /\ heap.arrs[messages][Len(heap.arrs[messages])] = Len(heap.msgs)

\* C16: a reducer step for a stream event on a transcript that is empty or
\* whose last message is not an assistant message returns the same
\* transcript and allocates nothing.
C16_NoOpWithoutAssistant ==
  [][(Dispatches(StreamActionTypes)
       /\ LastRole(heap, messages) # "assistant")
     => messages' = messages /\ heap' = heap]_vars

\* A stream event was dispatched while the last message was a user message.
C16_Witness ==
  /\ dispatched # <<>>
  /\ LastDispatched.type \in StreamActionTypes
  /\ LastRole(heap, messages) = "user"

(***************************************************************************)
(* Properties of destroySession and of shutdown.                           *)
(***************************************************************************)
\* C17: a destroySession call for a key without an entry returns at once
\* and leaves the Map, the clients and the statistics as they were; a call
\* that finds an entry invokes disconnect() once on its client and leaves
\* the key without an entry when it returns; and a second call for the
\* same key, made before any session has been created since the first
\* call returned, is such a no-op.
C17_DestroyIdempotent ==
  /\ [](alast.inRow => alast.noop)
  /\ [][(alast' # alast /\ ~Has(sessions, alast'.key))
        => /\ alast'.noop
           /\ apc' = "idle"
           /\ sessions' = sessions /\ clients' = clients /\ stats' = stats]_vars
  /\ [][(apc = "idle" /\ apc' = "destroying")
        => LET id == sessions[Idx(sessions, akey')].id
           IN /\ clients'[id].disconnectCalls = clients[id].disconnectCalls + 1
              /\ \A other \in 1..Len(clients) :
                   other # id => clients'[other] = clients[other]]_vars
  /\ [][(apc = "destroying" /\ apc' = "idle")
        => ~Has(sessions', akey) /\ clients' = clients]_vars

\* destroySession was called twice in a row for a key that had a session:
\* the session's client was disconnected once and the second call did
\* nothing.
C17_Witness ==
  /\ alast.inRow
  /\ alast.noop
  /\ ~Has(sessions, alast.key)
  /\ \E id \in 1..Len(clients) :
       clients[id].key = alast.key /\ clients[id].disconnectCalls = 1

\* C18: when connecting fails, getOrCreateSession throws to its caller, the
\* failing step stores nothing, and the key has no entry afterwards; and
\* every entry of the Map belongs to a client that has been connected, so
\* no session is in the Map while its createSession call is still
\* connecting.
C18_FailedConnectLeavesNoEntry ==
  /\ [](\A i \in 1..Len(sessions) : sessions[i].id \in 1..Len(clients))
  /\ [](\A p \in Procs : pc[p] = "creating" => ~Has(sessions, req[p].key))
  /\ [][\A p \in Procs :
          (pc[p] = "creating" /\ pc'[p] = "done" /\ ret'[p] = 0)
          => /\ sessions' = sessions
             /\ clients' = clients
             /\ ~Has(sessions', req[p].key)]_vars

\* A call whose configuration differed from the session's has destroyed the
\* old session, failed to connect, and thrown: the key has no entry.
C18_Witness ==
  \E p \in Procs :
    /\ pc[p] = "done"
    /\ ret[p] = 0
    /\ ~Has(sessions, req[p].key)
    /\ \E id \in 1..Len(clients) :
         clients[id].key = req[p].key /\ clients[id].disconnectCalls = 1

\* C19: once destroyAllSessions has run, a getOrCreateSession call fails
\* fast: it throws at once, without going on to destroy, evict or create.
C19_FailFastAfterShutdown ==
  [][\A p \in Procs :
       (~cleanupTimer /\ pc[p] = "idle" /\ pc'[p] # "idle")
       => pc'[p] = "done" /\ ret'[p] = 0]_vars

(***************************************************************************)
(* Properties of the history prefix.                                       *)
(***************************************************************************)
\* C20: of the messages sent through one session only the first can carry
\* the history prefix, and it carries the session's history context when
\* there is one; every later message is sent without it.
C20_PrefixOnFirstMessageOnly ==
  \A id \in 1..Len(outbound) :
    /\ outbound[id] # <<>> => outbound[id][1].prefix = historyContext[id]
    /\ \A i \in 2..Len(outbound[id]) : outbound[id][i].prefix = NoHistory

\* A session with a history context has had several messages sent through
\* it, the first of them with the prefix.
C20_Witness ==
  \E id \in 1..Len(outbound) :
    /\ Len(outbound[id]) >= 2
    /\ outbound[id][1].prefix # NoHistory
    /\ ~isFirstMessage[id]

(***************************************************************************)
(* Properties of one response stream against its upstream events.          *)
(***************************************************************************)
\* The frames of the events of a sequence that the normalizer accepts, in
\* the order of the sequence.
RECURSIVE FramesOf(_)
FramesOf(events) ==
  IF events = <<>> THEN <<>>
  ELSE LET adapted == adaptIFlowMessage(Head(events))
       IN IF adapted = NullSSE THEN FramesOf(Tail(events))
          ELSE <<adapted>> \o FramesOf(Tail(events))

\* The loop has handled every event it has taken: it is waiting for the next
\* one, or it has written the terminal event it took last and closed.
LoopHandledAll ==
  \/ co.spc = "iterating"
  \/ /\ co.sink = "closed"
     /\ pulled # <<>>
     /\ TerminalFrame(adaptIFlowMessage(pulled[Len(pulled)]))

\* C21: within one stream the frames written are, in order, one frame for
\* each accepted event taken from upstream so far, nothing reordered and
\* nothing merged; the frame of an event is written before the next event is
\* taken, so whenever the loop waits for an event every frame of the events
\* before it is already written.
C21_FramesInUpstreamOrder == LoopHandledAll => co.frames = FramesOf(pulled)

\* Two frames are written, in upstream order, while the iterator still has
\* an event to yield.
C21_Witness ==
  /\ co.spc = "iterating"
  /\ upstream # <<>>
  /\ Len(co.frames) >= 2
  /\ co.frames[1] # co.frames[2]
  /\ co.frames = FramesOf(pulled)

\* C24: if the client cancels the response mid-stream, the coordinator
\* stops pulling from the upstream iterator.  The event whose pull was
\* already in flight when the cancel came may still arrive; after it no
\* further event is pulled.
C24_CancelStopsPulling ==
  pulledAtCancel >= 0 => Len(pulled) <= pulledAtCancel + 1

\* C25: every frame written to a request's response was produced upstream
\* in answer to that request's message: with the session's connection as one
\* ordered event channel, no event of a turn is delivered to the stream of
\* another request, neither when two requests stream on the session at once
\* nor when a request follows a turn that was cancelled before its terminal
\* event.
C25_FramesAnswerOwnMessage ==
  \A p \in Procs :
    \A i \in 1..Len(turn[p].origin) : turn[p].origin[i] = p

(***************************************************************************)
(* Properties of the rate limiter.                                         *)
(***************************************************************************)
\* The check() calls of an identifier that returned allowed = true at a
\* time in the interval [start, start + windowMs).
AllowedWithin(identifier, start) ==
  {i \in 1..Len(checks) :
     /\ checks[i].identifier = identifier
     /\ checks[i].allowed
     /\ start <= checks[i].time
     /\ checks[i].time < start + windowMs}

\* C22: the rate limiter is a sliding window: for every identifier and every
\* interval of length windowMs, wherever it starts, at most maxRequests
\* check() calls within the interval return allowed = true.
C22_SlidingWindow ==
  \A identifier \in Identifiers, start \in 0..MaxTime :
    Cardinality(AllowedWithin(identifier, start)) <= maxRequests

(***************************************************************************)
(* Properties of the pool under interleaved destroys.                      *)
(***************************************************************************)
\* The call of request p returns on the reuse path in this step: it is made
\* and it returns the existing session without suspending.
Reuses(p) == pc[p] = "idle" /\ pc'[p] = "done" /\ ret'[p] # 0

InPool(s, id) == \E i \in 1..Len(s) : s[i].id = id

\* C23: getOrCreateSession never returns a session whose destruction has
\* begun: a session returned on the reuse path is in the pool and
\* disconnect() has not been invoked on its connection, whatever destroy of
\* the same key is in progress.
C23_ReuseNeverReturnsDying ==
  [][\A p \in Procs :
       Reuses(p) => (/\ InPool(sessions', ret'[p])
                     /\ clients'[ret'[p]].disconnectCalls = 0)]_vars

\* C27: over its whole lifetime a session's connection has disconnect()
\* invoked at most once, under any interleaving of the destroy paths with
\* each other and with getOrCreateSession.
C27_DisconnectAtMostOnce ==
  \A id \in 1..Len(clients) : clients[id].disconnectCalls <= 1

(***************************************************************************)
(* Properties of what the coordinator collects for persistence.            *)
(***************************************************************************)
\* The positions of the frames of a type in a sequence of frames, and the
\* last frame of the type.  The events of the turn are those the loop has
\* taken: EventsOfTurn is what they normalize to.
EventsOfTurn == FramesOf(pulled)

FramesOfType(frames, type) == {i \in 1..Len(frames) : frames[i].type = type}

LastOfType(frames, type) ==
  frames[CHOOSE i \in FramesOfType(frames, type) :
           \A j \in FramesOfType(frames, type) : j <= i]

\* C28: the assistant text collected for persistence is overwritten by each
\* TextDelta: the content handed to saveIFlowMessage at the terminal event
\* is the text of the last text-delta frame of the turn, the content the
\* client reducer ends with for the same frames.
C28_SavedTextIsLastDelta ==
  \A i \in 1..Len(co.saved) :
    /\ FramesOfType(EventsOfTurn, "text-delta") # {}
    /\ co.saved[i].content = LastOfType(EventsOfTurn, "text-delta").text

\* C29: the tool calls collected for persistence hold at most one entry per
\* toolName: a later tool call with the same toolName updates the entry.
C29_SavedToolCallsKeyed == UniqueToolNames(co.toolCalls)

\* C30: the plan collected for persistence is the entries of the latest plan
\* event of the turn only, never the concatenation of several.
C30_SavedPlanIsLatest ==
  co.planEntries = IF FramesOfType(EventsOfTurn, "plan") = {} THEN <<>>
                   ELSE LastOfType(EventsOfTurn, "plan").entries

(***************************************************************************)
(* Properties of streams on pooled sessions.                               *)
(***************************************************************************)
\* disconnect() is invoked on the session's client in this step.
DisconnectInvoked(id) ==
  id <= Len(clients) /\ clients'[id].disconnectCalls > clients[id].disconnectCalls

\* The step is one of the idle sweep's destroys, or a capacity eviction.
BySweep == swpc' = "destroying" /\ (swpc = "idle" \/ expired' # expired)

ByEviction == \E p \in Procs : pc[p] # "evicting" /\ pc'[p] = "evicting"

\* The pool the eviction chooses from holds a session without a stream.
IdleCandidate == \E i \in 1..Len(sessions') : active[sessions'[i].id] = 0

\* C26: neither the idle sweep nor capacity eviction destroys a session on
\* which a stream is being coordinated, as long as capacity eviction has a
\* session without an active stream to choose instead.
C26_ActiveStreamNotDestroyed ==
  [][\A id \in SessionIds :
       (DisconnectInvoked(id) /\ active[id] > 0)
       => /\ ~BySweep
          /\ ByEviction => ~IdleCandidate]_vars

\* The coordinator has written the frame of a finish event, and something
\* was collected for the assistant message of the turn.
FinishObserved == FramesOfType(co.frames, "finish") # {}

SomethingCollected ==
  \/ co.assistantContent # NoText
  \/ co.toolCalls # <<>>
  \/ co.planEntries # <<>>

\* C31: for every turn in which the coordinator observes a finish event,
\* whatever was collected (empty text together with tool calls or a plan
\* included), the assistant message is handed to saveIFlowMessage exactly
\* once.
C31_SavedOnceOnFinish ==
  (FinishObserved /\ SomethingCollected) => Len(co.saved) = 1

(***************************************************************************)
(* Further properties of the reducer and of the hook.                      *)
(***************************************************************************)
\* C32: when a tool-call action merges into the entry with the same
\* toolName, a field that is undefined in the incoming event leaves the
\* entry's value for that field as it was (result stands for label, args,
\* result and error).
C32_UndefinedFieldsKept ==
  [][(Dispatches({"UPDATE_LAST_TOOL_CALL"})
       /\ LastRole(heap, messages) = "assistant")
     => LET before == LastMsg(heap, messages).toolCalls
            after == LastMsg(heap', messages').toolCalls
            payload == dispatched'[Len(dispatched')].payload
        IN \A i \in 1..Len(before) :
             (before[i].toolName = payload.toolName
              /\ payload.result = "undefined")
             => after[i].result = before[i].result]_vars

\* This step is a pass of the reader loop that runs the reducer on stream
\* events, and the transcript is another array after it.
StreamEventsApplied ==
  /\ reader.spc = "reading"
  /\ Len(dispatched') > Len(dispatched)
  /\ \A j \in (Len(dispatched) + 1)..Len(dispatched') :
       dispatched'[j].type \in StreamActionTypes
  /\ messages' # messages

\* The last message of the transcript is the placeholder sendMessage added,
\* or what stream events have made of it: since that ADD_MESSAGE only stream
\* events have been dispatched.
PlaceholderIsLast ==
  \E k \in 1..Len(dispatched) :
    /\ dispatched[k] = [type |-> "ADD_MESSAGE", payload |-> NewMessage("assistant")]
    /\ \A j \in (k + 1)..Len(dispatched) : dispatched[j].type \in StreamActionTypes

\* C33: the stream events of a turn only ever modify the assistant
\* placeholder that the same sendMessage call appended, also when a history
\* load (SET_MESSAGES) or clearMessages is dispatched mid-stream: a stream
\* event that changes the transcript finds the placeholder as its last
\* message.
C33_OnlyPlaceholderModified ==
  [][StreamEventsApplied => PlaceholderIsLast]_vars

\* The loop's iteration raises in this step: the iterator throws, or the
\* event it yields is null or undefined and reading its type throws.
IterationRaises ==
  /\ co.spc = "iterating"
  /\ co'.spc = "done"
  /\ \/ upstream = <<>> /\ ending = "throw"
     \/ upstream # <<>> /\ Head(upstream).js \in {"null", "undefined"}

\* C35: when iterating the upstream events raises, the coordinator writes
\* one error frame if the sink is still open, and closes the sink; on a sink
\* that is already closed it writes nothing, and in both cases no exception
\* leaves it; no frame is written after the error frame.
C35_CatchWritesOneErrorFrame ==
  /\ [][IterationRaises =>
          /\ ~co'.escaped
          /\ IF co.sink = "open"
             THEN /\ Len(co'.frames) = Len(co.frames) + 1
                  /\ SubSeq(co'.frames, 1, Len(co.frames)) = co.frames
                  /\ co'.frames[Len(co'.frames)].type = "error"
                  /\ co'.sink = "closed"
                  /\ co'.closes = co.closes + 1
             ELSE /\ co'.frames = co.frames
                  /\ co'.sink = co.sink
                  /\ co'.closes = co.closes]_vars
  /\ [][co.spc = "done" => co'.frames = co.frames]_vars

\* The iterator threw after two events were delivered: the error frame is
\* the last of three frames and the sink is closed.
C35_Witness ==
  /\ co.spc = "done"
  /\ ending = "throw"
  /\ upstream = <<>>
  /\ Len(co.frames) = 3
  /\ co.frames[3] = [type |-> "error", error |-> <<"upstream failed">>]
  /\ co.sink = "closed"
  /\ co.closes = 1

\* The candidate fields of an error event, in the order they are tried.
Candidates(message) ==
  <<message.error, message.message, message.description, message.details,
    message.data>>

\* The first candidate that holds a text, "Unknown error" when none does.
FirstText(message) ==
  LET c == Candidates(message)
      texts == {i \in 1..5 : c[i] \notin {Undef, ObjVal, NoText}}
  IN IF texts = {} THEN <<"Unknown error">>
     ELSE c[CHOOSE i \in texts : \A j \in texts : i <= j]

\* C37: the error text of the frame written for an upstream error event is
\* always a string: the first of the fields error, message, description,
\* details, data that holds a (non-empty) string, and "Unknown error" when
\* none of them does.
C37_ErrorTextIsFirstString ==
  (pulled # <<>> /\ pulled[1].type = "error" /\ co.frames # <<>>)
    => /\ co.frames[1].error # ObjVal
       /\ co.frames[1].error = FirstText(pulled[1])

\* The frames whose payload is JSON among the frames that have arrived.
WellFormedArrived ==
  SelectSeq(SubSeq(frameCodes, 1, FramesArrived), LAMBDA code : code # Malformed)

\* C38: a line that starts with `data: ` and whose payload is not valid
\* JSON is dropped without ending the stream: the events the reader loop
\* has handled are exactly those of the well-formed frames that have
\* arrived, before and after it, in order, and no error is set.
C38_MalformedLineDropped ==
  TerminalAtEndOnly(frameCodes)
    => /\ reader.events =
            [i \in 1..Len(WellFormedArrived) |-> SSEOf(WellFormedArrived[i])]
       /\ reader.spc = "reading" => reader.error = "null"

\* A malformed line between two frames has been read, and the events of
\* both frames have been handled.
C38_Witness ==
  /\ frameCodes = <<"x", Malformed, "p">>
  /\ reader.pos = Len(feed)
  /\ reader.events = <<SSEOf("x"), SSEOf("p")>>
  /\ reader.error = "null"

(***************************************************************************)
(* Properties of the response streams of pooled sessions.                  *)
(***************************************************************************)
\* A client cancels a stream in this step.
Cancels == cancelled' # cancelled

\* C34: a client cancellation mid-stream never destroys the session: the
\* cancel leaves the pool, the session's connection and the counters as
\* they were, and a later getOrCreateSession call for the session's key with
\* the same configuration, with no destroy of the key in between, returns
\* that same session.
C34_CancelKeepsSession ==
  /\ [][Cancels => UNCHANGED <<sessions, clients, stats>>]_vars
  /\ [][\A p \in Procs :
          (Returns(p) /\ expect'[p] # 0 /\ cancelled[expect'[p]] # 0)
            => ret'[p] = expect'[p]]_vars

\* A stream of a session was cancelled, and a later call for its key has
\* returned the same session, still in the pool and not disconnected.
C34_Witness ==
  \E p \in Procs :
    /\ pc[p] = "done"
    /\ ret[p] # 0
    /\ cancelled[ret[p]] # 0
    /\ cancelled[ret[p]] < calls
    /\ expect[p] = ret[p]
    /\ Has(sessions, req[p].key)
    /\ sessions[Idx(sessions, req[p].key)].id = ret[p]
    /\ clients[ret[p]].disconnectCalls = 0

\* C36: if a session has a history prefix to send, the first message that
\* is successfully delivered upstream through it carries the prefix: a
\* failed send of the first message does not consume the prefix.
C36_FirstDeliveredHasPrefix ==
  \A id \in 1..Len(historyContext) :
    (historyContext[id] # NoHistory /\ firstDelivered[id] # <<>>)
      => firstDelivered[id][1].prefix = historyContext[id]

(***************************************************************************)
(* A further property of the pool's counters.                              *)
(***************************************************************************)
\* No getOrCreateSession call and no sweep is between two of its steps.
NoOperationInFlight ==
  /\ \A p \in Procs : pc[p] \in {"idle", "done"}
  /\ swpc = "idle"

\* C39: whenever no pool operation is in flight, activeSessions (the size
\* of the session map) equals totalCreated - totalDestroyed, after any
\* interleaving of getOrCreateSession, destroy, sweep and eviction.
C39_ActiveIsCreatedMinusDestroyed ==
  NoOperationInFlight => Len(sessions) = stats.totalCreated - stats.totalDestroyed

(***************************************************************************)
(* A further property of the hook.                                         *)
(***************************************************************************)
\* C40: a hook instance has at most one chat request in flight: a
\* sendMessage call made while an earlier call has not finished appends no
\* message and issues no request, also when both calls are made before the
\* hook has rendered again.
C40_OneRequestInFlight ==
  /\ [](sender.inFlight <= 1)
  /\ [][(sender'.sendCalls # sender.sendCalls /\ sender.inFlight > 0)
         => /\ messages' = messages
            /\ sender'.requests = sender.requests]_vars
====
